---- MODULE Spec2Model ----
(***************************************************************************)
(* A model of qdl.js: the Sahara loader upload, the Firehose transport and *)
(* the qdlDevice flows built on them.                                      *)
(*                                                                         *)
(* Several specifications share this module.  Each one drives one group of *)
(* variables and leaves the other groups at their initial values:          *)
(*   SpecConnect  qdlDevice.connect with Sahara.connect / uploadLoader     *)
(*   SpecFlash    qdlDevice.flashBlob over Firehose.cmdErase / cmdProgram  *)
(*   SpecInfo     getDeviceInfo: getActiveSlot and getStorageInfo together *)
(*   SpecErase    qdlDevice.eraseLun and erase over Firehose.cmdErase      *)
(*   SpecSlot     GPT.setActiveSlot and getActiveSlot on a parsed table    *)
(*   SpecSetSlot  qdlDevice.setActiveSlot with ensureGptHdrConsistency     *)
(*   SpecRepair   qdlDevice.repairGpt, createBackupGptHeader, asAlternate  *)
(*   SpecSparse   Sparse.read and splitBlob, byte by byte                  *)
(*   SpecProgram  Firehose.cmdProgram, one payload write at a time         *)
(*   SpecFlashBlob  the head of flashBlob: detectPartition, the name and   *)
(*                the size check, up to its first write command            *)
(*   SpecHeader   GPT.parseHeader on one header sector                     *)
(*   SpecWait     the read loops of xmlSend and waitForData, one read at   *)
(*                a time, with the host's steps weakly fair                *)
(*   SpecStream   the bulk writes of cmdProgram and cmdErase, one USB      *)
(*                transfer at a time                                       *)
(*   SpecPatch    patchNewGptData on one pair of _a/_b entries, for        *)
(*                successive setActiveSlot calls                           *)
(*   SpecCheck    checkHeaderCrc on one GPT buffer, parsed and checked     *)
(*                again afterwards                                         *)
(*   SpecLogger   Logger.deviceMessage, the debounce timer and             *)
(*                flushDeviceMessages in any order                         *)
(*   SpecTimeout  runWithTimeout: the promise, its reactions and the       *)
(*                timer, with timer and reactions weakly fair              *)
(*   SpecProbe    Sahara.connect on its own, for every pair of probe data  *)
(*   SpecXml      xmlParser.getResponse, one document at a time            *)
(*   SpecReadBuffer  Firehose.cmdReadBuffer, one transfer at a time, with  *)
(*                the host's steps weakly fair                             *)
(***************************************************************************)
EXTENDS Integers, Sequences, FiniteSets, TLC

(***************************************************************************)
(* Bounds of the model                                                     *)
(***************************************************************************)
\* longest programmer image, in bytes
MaxProgLen == 3
\* largest data_offset and data_len a 64BIT_MEMORY_READ_DATA request carries
MaxReq == 4
\* most chunks of a sparse image
MaxChunks == 2
\* cmdReadBuffer calls of getGpt that are followed
MaxReads == 2
\* longest preservePartitions list given to eraseLun
MaxPreserve == 3
\* most entries of a parsed partition table
MaxEntries == 2
\* most LUNs of firehose.luns that are walked
MaxLuns == 2
\* most chunks of a sparse image that is expanded byte by byte
MaxSparseChunks == 3
\* most full payloads a programmed blob holds
MaxPayloads == 2
\* most documents in the input of xmlParser.getResponse
MaxDocs == 3
\* calls and timer expiries of one Logger that are followed
MaxLogOps == 4
\* checks of one GPT buffer that are followed
MaxChecks == 2
\* setActiveSlot calls in a row that are followed
MaxApplications == 3
\* most payload chunks one cmdProgram or cmdErase streams
MaxStreamChunks == 4
\* most packets a device sends in answer to one command
MaxPackets == 3
\* most sectors one cmdReadBuffer asks for
MaxReadSectors == 2

(***************************************************************************)
(* Program constants                                                       *)
(***************************************************************************)
SAHARA_HELLO_REQ == 1
SAHARA_END_TRANSFER == 4
SAHARA_DONE_RSP == 6
SAHARA_RESET_RSP == 8
SAHARA_CMD_READY == 11
SAHARA_EXECUTE_RSP == 14
SAHARA_64BIT_MEMORY_READ_DATA == 18
SAHARA_STATUS_SUCCESS == 0
SAHARA_NAK_INVALID_CMD == 1
\* the smallest image id uploadLoader accepts
MinImageId == 12
\* Firehose cfg
SECTOR_SIZE_IN_BYTES == 4096
\* part_006, the byte length of the GPTHeader struct and the least headerSize
GPT_HEADER_BYTES == 92
\* gpt.js: PART_ATT_ACTIVE_VAL >> PART_ATT_PRIORITY_BIT, and the flags of
\* boot partitions >> PART_ATT_PRIORITY_BIT (setPartitionFlags)
PART_ATT_ACTIVE == 4
BOOT_ACTIVE_FLAGS == 111
BOOT_INACTIVE_FLAGS == 58
\* LogLevel of the logger (part_007, line 64)
LogLevelSilent == 0
LogLevelError == 1
LogLevelInfo == 3
LogLevelDebug == 4
\* firehose.js, xmlSend: const timeout = 3
XmlSendTimeout == 3
\* usblib.js, usbClass.maxSize before an endpoint is claimed
cdcMaxSize == 512
\* firehose.js, cfg.MaxPayloadSizeToTargetInBytes
MaxPayloadSizeToTargetInBytes == 1048576
\* sparse container
FILE_HEADER_SIZE == 28
CHUNK_HEADER_SIZE == 12
\* empty reads after which xmlSend and waitForData stop reading
EmptyReadLimit == 4
\* the A/B flags of a partition entry, within attributes >> AB_FLAG_OFFSET
AB_PARTITION_ATTR_SLOT_ACTIVE == 4
AB_PARTITION_ATTR_BOOT_SUCCESSFUL == 64
AB_PARTITION_ATTR_UNBOOTABLE == 128
AB_PARTITION_ATTR_TRIES_MASK == 3840
\* eraseLun: most sectors of one cmdErase
maxSectors == 524288

\* byte values the programmer image is built from
ByteVals == {0, 255}

VARIABLES
  \* ---- qdlDevice.connect / Sahara -------------------------------------
  programmer,      \* Sahara.programmer: the loader image, a sequence of bytes
  cpc,             \* position of qdlDevice.connect
  usbConnected,    \* cdc.connected
  qdlMode,         \* qdlDevice.mode ("null" before Sahara.connect returns)
  saharaMode,      \* Sahara.mode
  saharaId,        \* Sahara.id (-1 for null)
  remainingBytes,  \* local of uploadLoader
  firehoseObj,     \* qdlDevice.#firehose: "null" or "set"
  loopFrame,       \* the frame getResponse returned to the transfer loop last
  lastWrite,       \* the last memory read served: request and bytes written
  endOk,           \* an END_TRANSFER with status SUCCESS was received
  doneSent,        \* DONE_REQ was written
  doneRsp,         \* DONE_RSP was received
  upRet,           \* what uploadLoader returned ("none" while it has not)
  \* ---- qdlDevice.flashBlob / Firehose ---------------------------------
  part,            \* the partition detectPartition found: lun, sector, sectors
  image,           \* the blob: sparse or raw, its chunks, its size in bytes
  recs,            \* what is left of sparse.read(): records still to come
  fpc,             \* position of flashBlob
  cur,             \* the Firehose command being run
  cph,             \* position inside the command
  rData,           \* attributes of the <response> elements read so far
  counter,         \* empty reads counted by the running read loop
  inbox,           \* packets on the bulk IN endpoint, not yet read
  devOut,          \* responses the device has not sent yet
  devRaw,          \* the device is in raw mode and takes payload
  cmdNo,           \* number of command requests written so far
  issued,          \* the command requests written so far, in order
  lastXml,         \* the last return of xmlSend: merged response and resp
  taken,           \* the last response a read loop consumed, and for whom
  \* ---- getDeviceInfo ---------------------------------------------------
  infoPc,          \* position of getActiveSlot and of getStorageInfo
  infoCount,       \* empty reads counted by each one's read loop
  infoData,        \* attributes of the <response> elements each has read
  slotReads,       \* cmdReadBuffer requests getActiveSlot has written
  inFlight,        \* whose command has its request written, exchange open
  wire,            \* packets the device sends, in the order it sends them
  \* ---- qdlDevice.eraseLun / qdlDevice.erase ----------------------------
  eraseFlow,       \* which flow runs: "eraseLun" or "erase"
  mainGpt,         \* the GPT getGpt read: header LBAs and partentries
  preservePartitions, \* argument of eraseLun
  partitionName,   \* argument of erase
  erasableLeft,    \* erasableRanges not finished yet, the current one first
  curSector,       \* local sector of the chunk loop
  erased,          \* the cmdErase calls made so far, in order
  epc,             \* position of the flow
  \* ---- GPT.getActiveSlot / GPT.setActiveSlot ---------------------------
  partEntries,     \* GPT.#partEntries: the parsed entries, in table order
  lastSet,         \* argument of the last setActiveSlot ("none" before any)
  gotSlot,         \* what getActiveSlot returned since ("none" if not called)
  spc,             \* "parsed", or "thrown" once setActiveSlot has thrown
  \* ---- qdlDevice.setActiveSlot ------------------------------------------
  slotArg,         \* argument of qdlDevice.setActiveSlot
  luns,            \* the device: per LUN its partition names and GPT copies
  lunIdx,          \* index of lunA in firehose.luns
  devCmds,         \* the device commands issued so far, in order
  reconciled,      \* the calls of ensureGptHdrConsistency and their outcome
  gptWriteFailed,  \* a cmdProgram of setActiveSlot returned false
  sspc,            \* position of qdlDevice.setActiveSlot
  \* qdlDevice.repairGpt, createBackupGptHeader, GPT.asAlternate
  repLun,          \* the lun argument of repairGpt
  repDisk,         \* the primary GPT on the device once fixgpt has run
  repCmds,         \* the firehose commands issued, oldest first
  repPrimary,      \* what getGpt returned: [primaryGpt, primaryGptData]
  repBackup,       \* what createBackupGptHeader returned
  repAlt,          \* what primaryGpt.asAlternate() returned
  rpc,             \* position in repairGpt
  \* Sparse.read and splitBlob
  spReader,        \* "read" (Sparse.read) or "splitBlob"
  spImage,         \* the sparse file: blockSize, totalBlocks, chunks
  spMaxSize,       \* maxSize of read, splitSize of splitBlob
  spIdx,           \* index of the next chunk
  spOffset,        \* blobOffset of chunks()
  spBuf,           \* bytes the builder holds (read), splitChunks (splitBlob)
  spOut,           \* the pieces yielded so far
  spYielded,       \* the chunks that chunks() has yielded, by index
  sppc,            \* position in the reader
  pgSize,          \* blob.size of the blob given to cmdProgram
  pgSectors,       \* num_partition_sectors of the <program> request
  pgReq,           \* what xmlSend parsed as the answer to the request
  pgLeft,          \* bytesToWriteSplit
  pgOffset,        \* offset into the split
  pgWrites,        \* the payload writes: bytes of the blob and bytes written
  pgResult,        \* what cmdProgram returned
  pgpc,            \* position in cmdProgram
  rbSectors,       \* numPartitionSectors given to cmdReadBuffer
  rbReq,           \* what xmlSend parsed as the answer to the <read> request
  rbDevice,        \* payload bytes the device is still going to send
  rbLeft,          \* bytesToRead
  rbResult,        \* the resp field of what cmdReadBuffer returned
  rbpc,            \* position in cmdReadBuffer
  cfgAnswer,       \* what the device answered to <configure>
  fbName,          \* partitionName given to flashBlob
  fbSize,          \* blob.size
  fbSparse,        \* whether Sparse.from(blob) is a sparse image
  fbLuns,          \* per LUN of firehose.luns: its table, readable or not
  fbIdx,           \* LUNs that detectPartition has walked
  fbPart,          \* the entry detectPartition returned
  fbCmds,          \* the Firehose commands issued so far
  fbpc,            \* position in flashBlob
  xmDocs,          \* the input: per document the attributes of its <response>
  xmIdx,           \* documents folded so far
  xmContent,       \* content of getResponse
  xmpc,            \* position in getResponse
  probeFirst,      \* what the first read of Sahara.connect gave
  probeLate,       \* what arrived after the no-op XML
  connectResult,   \* what Sahara.connect returned, or "throw"
  probepc,         \* position in Sahara.connect
  hdData,          \* the header sector given to GPT.parseHeader
  hdResult,        \* what parseHeader returned
  hdpc,            \* position in parseHeader
  wtLoop,          \* "xmlSend" or "waitForData"
  wtDevice,        \* the packets the device is still going to send
  wtReads,         \* what each cdc.read() of the loop returned
  wtCounter,       \* counter of xmlSend, timeout of waitForData
  wtData,          \* rData of xmlSend, tmp of waitForData: packets kept
  wtpc,            \* position in the loop
  stCmd,           \* "program" or "erase"
  stSparse,        \* cmdProgram: the blob is a sparse image
  stLeft,          \* payload chunks still to be written
  stBulk,          \* the bulk transfers carried out, in order
  stResult,        \* what the command returned
  stpc,            \* position in the command
  ptBase,          \* the name of the pair without its suffix
  ptEntryA,        \* the _a entry: type GUID and flags
  ptEntryB,        \* the _b entry
  ptSlots,         \* the slots of the setActiveSlot calls made, in order
  ptBefore,        \* the two entries before the last call
  ckData,          \* the GPT buffer: header fields, stored CRCs, table
  ckFirst,         \* the buffer as it was handed to the first check
  ckHeader,        \* guidGpt.header: the CRC fields parsed from the buffer
  ckResults,       \* what each checkHeaderCrc call returned as corrupted
  ckpc,            \* "parse" or "check"
  lgLevel,         \* Logger.level
  deviceState,     \* Logger.deviceState, debounceMs left out
  lgTimers,        \* debounce timers that are set and have not fired
  lgOps,           \* the calls and expiries so far, each with its output
  rtTimeout,       \* the timeout argument, in ms
  rtPromise,       \* the promise argument: state and value
  rtChain,         \* the reaction of the promise that runs next
  rtTimer,         \* the timer tid: "set", "fired" or "cleared"
  timedOut,        \* the local timedOut
  rtResult,        \* the promise runWithTimeout returned: state and value
  rtFirst          \* what happened first: "promise" or "timer"

connVars == <<programmer, cpc, usbConnected, qdlMode, saharaMode, saharaId,
              remainingBytes, firehoseObj, loopFrame, lastWrite, endOk,
              doneSent, doneRsp, upRet>>

flashVars == <<part, image, recs, fpc, cur, cph, rData, counter, inbox,
               devOut, devRaw, cmdNo, issued, lastXml, taken>>

infoVars == <<infoPc, infoCount, infoData, slotReads, inFlight, wire>>

eraseVars == <<eraseFlow, mainGpt, preservePartitions, partitionName,
               erasableLeft, curSector, erased, epc>>

slotVars == <<partEntries, lastSet, gotSlot, spc>>

setSlotVars == <<slotArg, luns, lunIdx, devCmds, reconciled, gptWriteFailed, sspc>>

repairVars == <<repLun, repDisk, repCmds, repPrimary, repBackup, repAlt, rpc>>

sparseVars == <<spReader, spImage, spMaxSize, spIdx, spOffset, spBuf, spOut, spYielded, sppc>>

programVars == <<pgSize, pgSectors, pgReq, pgLeft, pgOffset, pgWrites, pgResult, pgpc>>

readBufferVars == <<rbSectors, rbReq, rbDevice, rbLeft, rbResult, rbpc>>

configVars == <<cfgAnswer>>

flashBlobVars == <<fbName, fbSize, fbSparse, fbLuns, fbIdx, fbPart, fbCmds, fbpc>>

xmlVars == <<xmDocs, xmIdx, xmContent, xmpc>>

probeVars == <<probeFirst, probeLate, connectResult, probepc>>

headerVars == <<hdData, hdResult, hdpc>>

waitVars == <<wtLoop, wtDevice, wtReads, wtCounter, wtData, wtpc>>

streamVars == <<stCmd, stSparse, stLeft, stBulk, stResult, stpc>>

patchVars == <<ptBase, ptEntryA, ptEntryB, ptSlots, ptBefore>>

checkVars == <<ckData, ckFirst, ckHeader, ckResults, ckpc>>

loggerVars == <<lgLevel, deviceState, lgTimers, lgOps>>

timeoutVars == <<rtTimeout, rtPromise, rtChain, rtTimer, timedOut, rtResult, rtFirst>>

vars == <<connVars, flashVars, infoVars, eraseVars, slotVars, setSlotVars, repairVars, sparseVars, programVars, readBufferVars, configVars, flashBlobVars, xmlVars, probeVars, headerVars, waitVars, streamVars, patchVars, checkVars, loggerVars, timeoutVars>>

\* what the actions of one flow leave alone: the variables of the others
notConn == <<flashVars, infoVars, eraseVars, slotVars, setSlotVars, repairVars, sparseVars, programVars, readBufferVars, configVars, flashBlobVars, xmlVars, probeVars, headerVars, waitVars, streamVars, patchVars, checkVars, loggerVars, timeoutVars>>
notFlash == <<connVars, infoVars, eraseVars, slotVars, setSlotVars, repairVars, sparseVars, programVars, readBufferVars, configVars, flashBlobVars, xmlVars, probeVars, headerVars, waitVars, streamVars, patchVars, checkVars, loggerVars, timeoutVars>>
notInfo == <<connVars, flashVars, eraseVars, slotVars, setSlotVars, repairVars, sparseVars, programVars, readBufferVars, configVars, flashBlobVars, xmlVars, probeVars, headerVars, waitVars, streamVars, patchVars, checkVars, loggerVars, timeoutVars>>
notErase == <<connVars, flashVars, infoVars, slotVars, setSlotVars, repairVars, sparseVars, programVars, readBufferVars, configVars, flashBlobVars, xmlVars, probeVars, headerVars, waitVars, streamVars, patchVars, checkVars, loggerVars, timeoutVars>>
notSlot == <<connVars, flashVars, infoVars, eraseVars, setSlotVars, repairVars, sparseVars, programVars, readBufferVars, configVars, flashBlobVars, xmlVars, probeVars, headerVars, waitVars, streamVars, patchVars, checkVars, loggerVars, timeoutVars>>
notSetSlot == <<connVars, flashVars, infoVars, eraseVars, slotVars, repairVars, sparseVars, programVars, readBufferVars, configVars, flashBlobVars, xmlVars, probeVars, headerVars, waitVars, streamVars, patchVars, checkVars, loggerVars, timeoutVars>>
notRepair == <<connVars, flashVars, infoVars, eraseVars, slotVars, setSlotVars, sparseVars, programVars, readBufferVars, configVars, flashBlobVars, xmlVars, probeVars, headerVars, waitVars, streamVars, patchVars, checkVars, loggerVars, timeoutVars>>
notSparse == <<connVars, flashVars, infoVars, eraseVars, slotVars, setSlotVars, repairVars, programVars, readBufferVars, configVars, flashBlobVars, xmlVars, probeVars, headerVars, waitVars, streamVars, patchVars, checkVars, loggerVars, timeoutVars>>
notProgram == <<connVars, flashVars, infoVars, eraseVars, slotVars, setSlotVars, repairVars, sparseVars, readBufferVars, configVars, flashBlobVars, xmlVars, probeVars, headerVars, waitVars, streamVars, patchVars, checkVars, loggerVars, timeoutVars>>
notReadBuffer == <<connVars, flashVars, infoVars, eraseVars, slotVars, setSlotVars, repairVars, sparseVars, programVars, configVars, flashBlobVars, xmlVars, probeVars, headerVars, waitVars, streamVars, patchVars, checkVars, loggerVars, timeoutVars>>
notFlashBlob == <<connVars, flashVars, infoVars, eraseVars, slotVars, setSlotVars, repairVars, sparseVars, programVars, readBufferVars, configVars, xmlVars, probeVars, headerVars, waitVars, streamVars, patchVars, checkVars, loggerVars, timeoutVars>>
notXml == <<connVars, flashVars, infoVars, eraseVars, slotVars, setSlotVars, repairVars, sparseVars, programVars, readBufferVars, configVars, flashBlobVars, probeVars, headerVars, waitVars, streamVars, patchVars, checkVars, loggerVars, timeoutVars>>
notProbe == <<connVars, flashVars, infoVars, eraseVars, slotVars, setSlotVars, repairVars, sparseVars, programVars, readBufferVars, configVars, flashBlobVars, xmlVars, headerVars, waitVars, streamVars, patchVars, checkVars, loggerVars, timeoutVars>>
notHeader == <<connVars, flashVars, infoVars, eraseVars, slotVars, setSlotVars, repairVars, sparseVars, programVars, readBufferVars, configVars, flashBlobVars, xmlVars, probeVars, waitVars, streamVars, patchVars, checkVars, loggerVars, timeoutVars>>
notWait == <<connVars, flashVars, infoVars, eraseVars, slotVars, setSlotVars, repairVars, sparseVars, programVars, readBufferVars, configVars, flashBlobVars, xmlVars, probeVars, headerVars, streamVars, patchVars, checkVars, loggerVars, timeoutVars>>
notStream == <<connVars, flashVars, infoVars, eraseVars, slotVars, setSlotVars, repairVars, sparseVars, programVars, readBufferVars, configVars, flashBlobVars, xmlVars, probeVars, headerVars, waitVars, patchVars, checkVars, loggerVars, timeoutVars>>
notPatch == <<connVars, flashVars, infoVars, eraseVars, slotVars, setSlotVars, repairVars, sparseVars, programVars, readBufferVars, configVars, flashBlobVars, xmlVars, probeVars, headerVars, waitVars, streamVars, checkVars, loggerVars, timeoutVars>>
notCheck == <<connVars, flashVars, infoVars, eraseVars, slotVars, setSlotVars, repairVars, sparseVars, programVars, readBufferVars, configVars, flashBlobVars, xmlVars, probeVars, headerVars, waitVars, streamVars, patchVars, loggerVars, timeoutVars>>
notLogger == <<connVars, flashVars, infoVars, eraseVars, slotVars, setSlotVars, repairVars, sparseVars, programVars, readBufferVars, configVars, flashBlobVars, xmlVars, probeVars, headerVars, waitVars, streamVars, patchVars, checkVars, timeoutVars>>
notTimeout == <<connVars, flashVars, infoVars, eraseVars, slotVars, setSlotVars, repairVars, sparseVars, programVars, readBufferVars, configVars, flashBlobVars, xmlVars, probeVars, headerVars, waitVars, streamVars, patchVars, checkVars, loggerVars>>

(***************************************************************************)
(* Sahara frames as the device sends them                                  *)
(***************************************************************************)
\* t: "empty" (zero-length read), "xml" (text holding "<?xml"), "err" (the
\* read rejects) or "pkt" (a binary frame with command code cmd).
\* a, b, c are the fields after the header: image_id / data_offset / data_len
\* of a memory read, image_id / image_tx_status of END_TRANSFER.
RawFrame(t, cmd, a, b, c) == [t |-> t, cmd |-> cmd, a |-> a, b |-> b, c |-> c]

NoFrame == RawFrame("none", 0, 0, 0, 0)

ImageIds == {MinImageId - 1, MinImageId}

MemReadFrames ==
  {RawFrame("pkt", SAHARA_64BIT_MEMORY_READ_DATA, id, off, len) :
     id \in ImageIds, off \in 0..MaxReq, len \in 0..MaxReq}

EndTransferFrames ==
  {RawFrame("pkt", SAHARA_END_TRANSFER, MinImageId, st, 0) :
     st \in {SAHARA_STATUS_SUCCESS, SAHARA_NAK_INVALID_CMD, 2}}

PlainFrames ==
  {RawFrame("pkt", cmd, 0, 0, 0) :
     cmd \in {SAHARA_HELLO_REQ, SAHARA_DONE_RSP, SAHARA_RESET_RSP,
              SAHARA_CMD_READY, SAHARA_EXECUTE_RSP, 7}}

DeviceFrames ==
  MemReadFrames \cup EndTransferFrames \cup PlainFrames
    \cup {RawFrame("empty", 0, 0, 0, 0), RawFrame("xml", 0, 0, 0, 0),
          RawFrame("err", 0, 0, 0, 0)}

KnownCmds ==
  {SAHARA_HELLO_REQ, SAHARA_DONE_RSP, SAHARA_END_TRANSFER,
   SAHARA_64BIT_MEMORY_READ_DATA, SAHARA_EXECUTE_RSP, SAHARA_CMD_READY,
   SAHARA_RESET_RSP}

\* Sahara.getResponse: {} for an empty read, a rejected read or an unknown
\* command; {firehose: "yes"} for XML; {cmd, data} otherwise.
GetResponse(raw) ==
  IF raw.t = "err" THEN [hasCmd |-> FALSE, firehose |-> FALSE, pkt |-> raw]
  ELSE IF raw.t = "empty" THEN [hasCmd |-> FALSE, firehose |-> FALSE, pkt |-> raw]
  ELSE IF raw.t = "xml" THEN [hasCmd |-> FALSE, firehose |-> TRUE, pkt |-> raw]
  ELSE IF raw.cmd \in KnownCmds THEN [hasCmd |-> TRUE, firehose |-> FALSE, pkt |-> raw]
  ELSE [hasCmd |-> FALSE, firehose |-> FALSE, pkt |-> raw]

(***************************************************************************)
(* Sahara.connect: the probe                                               *)
(***************************************************************************)
\* Probe data: len is the number of bytes (0, 1 or 48), b0 the first byte,
\* cmd the command code of the header, xml whether it holds "<?xml".
ProbeData(len, b0, cmd, xml) == [len |-> len, b0 |-> b0, cmd |-> cmd, xml |-> xml]

NoProbe == ProbeData(0, 0, 0, FALSE)

ProbeKinds ==
  {NoProbe,
   ProbeData(1, 1, 1, FALSE),
   ProbeData(1, 4, 4, FALSE),
   ProbeData(48, 1, SAHARA_HELLO_REQ, FALSE),
   ProbeData(48, 1, 257, FALSE),
   ProbeData(48, 4, SAHARA_END_TRANSFER, FALSE),
   ProbeData(48, 60, 0, TRUE),
   ProbeData(48, 9, 9, FALSE)}

\* first: what the 48-byte read gave within 500 ms (NoProbe on a timeout);
\* late: what that same read promise gives within the 2 s that follow the
\* no-op XML (the code never starts a second read: `if (!resp)` is false for
\* an empty Uint8Array).
SaharaConnect(first, late) ==
  IF first.len > 1
  THEN IF first.b0 = 1
       THEN IF first.cmd = SAHARA_HELLO_REQ THEN "sahara"
            ELSE IF first.cmd = SAHARA_END_TRANSFER THEN "sahara"
            ELSE "throw"
       ELSE IF first.xml THEN "firehose" ELSE "error"
  ELSE LET resp == IF first.len = 0 THEN late ELSE first
       IN IF resp.xml THEN "firehose"
          ELSE IF resp.len > 0 /\ resp.b0 = SAHARA_END_TRANSFER THEN "sahara"
          ELSE "error"

(***************************************************************************)
(* Sahara.uploadLoader                                                     *)
(***************************************************************************)
\* n bytes of s starting at 0-based offset from
Slice(s, from, n) == [i \in 1..n |-> s[from + i]]

\* a plausible slip: the slice is cut at the end of the programmer and the
\* tail is not padded
DataToWriteNoPad(prog, off, len) ==
  IF off >= Len(prog) THEN <<>>
  ELSE Slice(prog, off, IF off + len > Len(prog) THEN Len(prog) - off ELSE len)

\* the bytes written for a memory read (data_offset, data_len)
DataToWrite(prog, off, len) ==
  IF off + len > Len(prog)
  THEN LET head == IF off < Len(prog)
                   THEN Slice(prog, off, Len(prog) - off)
                   ELSE <<>>
       IN [i \in 1..len |-> IF i <= Len(head) THEN head[i] ELSE 0]
  ELSE Slice(prog, off, len)

NoWrite == [served |-> FALSE, off |-> 0, len |-> 0, data |-> <<>>]

Programmers == UNION {[1..n -> ByteVals] : n \in 0..MaxProgLen}

(***************************************************************************)
(* Firehose responses                                                      *)
(***************************************************************************)
\* the value and rawmode attributes of <response>; "none" is an absent one
Response(value, rawmode) == [value |-> value, rawmode |-> rawmode]

NoResponse == Response("none", "none")

\* a packet on the wire: a response document; for and stage say which
\* command request (stage "req") or payload (stage "fin") it answers
Packet(value, rawmode, for, stage) ==
  [value |-> value, rawmode |-> rawmode, for |-> for, stage |-> stage]

NoCmd ==
  [op |-> "none", lun |-> 0, start |-> 0, nsect |-> 0, offset |-> 0, no |-> 0,
   reqAns |-> "none", finAns |-> "none", streamed |-> FALSE,
   result |-> "none"]

NoXml == [set |-> FALSE, resp |-> NoResponse, ok |-> FALSE]

NoTaken == [by |-> 0, for |-> 0]

NoImage == [sparse |-> FALSE, blockSize |-> 0, chunks |-> <<>>, size |-> 0]

\* the flashBlob variables while another flow runs
FlashIdle ==
  /\ part = [lun |-> 0, sector |-> 0, sectors |-> 0]
  /\ image = NoImage
  /\ recs = <<>>
  /\ fpc = "idle"
  /\ cur = NoCmd
  /\ cph = "idle"
  /\ rData = NoResponse
  /\ counter = 0
  /\ inbox = <<>>
  /\ devOut = <<>>
  /\ devRaw = FALSE
  /\ cmdNo = 0
  /\ issued = <<>>
  /\ lastXml = NoXml
  /\ taken = NoTaken

\* the tasks getDeviceInfo starts together
Tasks == {"slot", "storage"}

\* the device-info variables before getDeviceInfo is called
InfoIdle ==
  /\ infoPc = [t \in Tasks |-> "idle"]
  /\ infoCount = [t \in Tasks |-> 0]
  /\ infoData = [t \in Tasks |-> NoResponse]
  /\ slotReads = 0
  /\ inFlight = {}
  /\ wire = <<>>

\* a GPT as eraseLun uses it: header fields, and partentries as the set of
\* (name, sector, sectors), one per name
Gpt(firstUsableLba, lastUsableLba, backupLba, partentries) ==
  [currentLba |-> 1, firstUsableLba |-> firstUsableLba,
   lastUsableLba |-> lastUsableLba, backupLba |-> backupLba,
   partentries |-> partentries]

NoGpt == Gpt(0, 0, 0, {})

\* the erase variables while another flow runs
EraseIdle ==
  /\ eraseFlow = "none"
  /\ mainGpt = NoGpt
  /\ preservePartitions = <<>>
  /\ partitionName = "none"
  /\ erasableLeft = <<>>
  /\ curSector = 0
  /\ erased = <<>>
  /\ epc = "idle"

\* the runWithTimeout variables while another flow runs
TimeoutIdle ==
  /\ rtTimeout = 0
  /\ rtPromise = <<>>
  /\ rtChain = "idle"
  /\ rtTimer = "none"
  /\ timedOut = FALSE
  /\ rtResult = <<>>
  /\ rtFirst = "none"

\* the logger variables while another flow runs
LoggerIdle ==
  /\ lgLevel = 0
  /\ deviceState = <<>>
  /\ lgTimers = 0
  /\ lgOps = <<>>

\* the GPT buffer variables while another flow runs
CheckIdle ==
  /\ ckData = <<>>
  /\ ckFirst = <<>>
  /\ ckHeader = <<>>
  /\ ckResults = <<>>
  /\ ckpc = "idle"

\* the entry pair variables while another flow runs
PatchIdle ==
  /\ ptBase = "none"
  /\ ptEntryA = <<>>
  /\ ptEntryB = <<>>
  /\ ptSlots = <<>>
  /\ ptBefore = <<>>

\* the streaming variables while another flow runs
StreamIdle ==
  /\ stCmd = "none"
  /\ stSparse = FALSE
  /\ stLeft = 0
  /\ stBulk = <<>>
  /\ stResult = "none"
  /\ stpc = "idle"

\* the read loop variables while another flow runs
WaitIdle ==
  /\ wtLoop = "none"
  /\ wtDevice = <<>>
  /\ wtReads = <<>>
  /\ wtCounter = 0
  /\ wtData = <<>>
  /\ wtpc = "idle"

\* the parseHeader variables while another flow runs
HeaderIdle ==
  /\ hdData = <<>>
  /\ hdResult = <<>>
  /\ hdpc = "idle"

\* the probe of Sahara.connect before it has run
ProbeIdle ==
  /\ probeFirst = [len |-> 0, b0 |-> 0, cmd |-> 0, xml |-> FALSE]
  /\ probeLate = [len |-> 0, b0 |-> 0, cmd |-> 0, xml |-> FALSE]
  /\ connectResult = "none"
  /\ probepc = "idle"

\* the getResponse variables while another flow runs
XmlIdle ==
  /\ xmDocs = <<>>
  /\ xmIdx = 0
  /\ xmContent = <<>>
  /\ xmpc = "idle"

\* the flashBlob head variables while another flow runs
FlashBlobIdle ==
  /\ fbName = "none"
  /\ fbSize = 0
  /\ fbSparse = FALSE
  /\ fbLuns = <<>>
  /\ fbIdx = 0
  /\ fbPart = <<>>
  /\ fbCmds = <<>>
  /\ fbpc = "idle"

\* the answer to <configure> before configure has run
ConfigIdle == cfgAnswer = [value |-> "none", handler |-> FALSE, storage |-> FALSE]

\* the cmdReadBuffer variables while another flow runs
ReadBufferIdle ==
  /\ rbSectors = 0
  /\ rbReq = <<>>
  /\ rbDevice = 0
  /\ rbLeft = 0
  /\ rbResult = "none"
  /\ rbpc = "idle"

\* the cmdProgram variables while another flow runs
ProgramIdle ==
  /\ pgSize = 0
  /\ pgSectors = 0
  /\ pgReq = <<>>
  /\ pgLeft = 0
  /\ pgOffset = 0
  /\ pgWrites = <<>>
  /\ pgResult = "none"
  /\ pgpc = "idle"

\* the sparse reader variables while another flow runs
SparseIdle ==
  /\ spReader = "none"
  /\ spImage = <<>>
  /\ spMaxSize = 0
  /\ spIdx = 0
  /\ spOffset = 0
  /\ spBuf = <<>>
  /\ spOut = <<>>
  /\ spYielded = <<>>
  /\ sppc = "idle"

\* nothing derived or read yet
NoDerived == [none |-> TRUE]

\* the repairGpt variables while another flow runs
RepairIdle ==
  /\ repLun = 0
  /\ repDisk = NoDerived
  /\ repCmds = <<>>
  /\ repPrimary = NoDerived
  /\ repBackup = NoDerived
  /\ repAlt = NoDerived
  /\ rpc = "idle"

\* the setActiveSlot variables while another flow runs
SetSlotIdle ==
  /\ slotArg = "none"
  /\ luns = <<>>
  /\ lunIdx = 0
  /\ devCmds = <<>>
  /\ reconciled = <<>>
  /\ gptWriteFailed = FALSE
  /\ sspc = "idle"

\* the GPT slot variables while another flow runs
SlotIdle ==
  /\ partEntries = <<>>
  /\ lastSet = "none"
  /\ gotSlot = "none"
  /\ spc = "idle"

ConnInit ==
  /\ programmer \in Programmers
  /\ cpc = "start"
  /\ usbConnected \in BOOLEAN
  /\ qdlMode = "null"
  /\ saharaMode = ""
  /\ saharaId = -1
  /\ remainingBytes = 0
  /\ firehoseObj = "null"
  /\ loopFrame = NoFrame
  /\ lastWrite = NoWrite
  /\ endOk = FALSE
  /\ doneSent = FALSE
  /\ doneRsp = FALSE
  /\ upRet = "none"

\* qdlDevice.connect, lines 45-46: open the transport when it is not open.
\* cdc.connect() may reject, and may resolve with the interface unclaimed.
QdlOpenUsb ==
  /\ cpc = "start"
  /\ IF usbConnected
     THEN /\ cpc' = "probe"
          /\ UNCHANGED usbConnected
     ELSE \E outcome \in {"opened", "unclaimed", "rejected"} :
            /\ usbConnected' = (outcome = "opened")
            /\ cpc' = IF outcome = "opened" THEN "probe" ELSE "failed"
  /\ UNCHANGED <<programmer, qdlMode, saharaMode, saharaId, remainingBytes,
                 firehoseObj, loopFrame, lastWrite, endOk, doneSent, doneRsp,
                 upRet>>
  /\ UNCHANGED notConn

\* qdlDevice.connect, lines 48-56: Sahara.connect and the dispatch on its result
QdlSaharaConnect ==
  /\ cpc = "probe"
  /\ \E first \in ProbeKinds, late \in ProbeKinds :
       LET r == SaharaConnect(first, late)
       IN IF r = "throw"
          THEN /\ cpc' = "failed"
               /\ UNCHANGED qdlMode
          ELSE /\ qdlMode' = r
               /\ cpc' = IF r = "sahara" THEN "enter_cmd" ELSE "check"
  /\ UNCHANGED <<programmer, usbConnected, saharaMode, saharaId,
                 remainingBytes, firehoseObj, loopFrame, lastWrite, endOk,
                 doneSent, doneRsp, upRet>>
  /\ UNCHANGED notConn

\* uploadLoader, lines 357-359, with enterCommandMode: HELLO_RSP(COMMAND) is
\* written and CMD_READY is expected
EnterCommandMode ==
  /\ cpc = "enter_cmd"
  /\ \E raw \in DeviceFrames :
       LET res == GetResponse(raw)
       IN cpc' = IF res.hasCmd /\ raw.cmd = SAHARA_CMD_READY
                 THEN "serial" ELSE "failed"
  /\ UNCHANGED <<programmer, usbConnected, qdlMode, saharaMode, saharaId,
                 remainingBytes, firehoseObj, loopFrame, lastWrite, endOk,
                 doneSent, doneRsp, upRet>>
  /\ UNCHANGED notConn

\* uploadLoader, line 360, with cmdGetSerialNum / cmdExec: anything but
\* EXECUTE_RSP makes cmdGetSerialNum throw
CmdGetSerialNum ==
  /\ cpc = "serial"
  /\ \E raw \in DeviceFrames :
       LET res == GetResponse(raw)
       IN cpc' = IF res.hasCmd /\ raw.cmd = SAHARA_EXECUTE_RSP
                 THEN "reprobe" ELSE "failed"
  /\ UNCHANGED <<programmer, usbConnected, qdlMode, saharaMode, saharaId,
                 remainingBytes, firehoseObj, loopFrame, lastWrite, endOk,
                 doneSent, doneRsp, upRet>>
  /\ UNCHANGED notConn

\* uploadLoader, lines 361-370: switch mode, probe again (the result is
\* dropped, a throw is not), HELLO_RSP(IMAGE_TX_PENDING), remainingBytes
Reprobe ==
  /\ cpc = "reprobe"
  /\ \E first \in ProbeKinds, late \in ProbeKinds :
       IF SaharaConnect(first, late) = "throw"
       THEN /\ cpc' = "failed"
            /\ UNCHANGED remainingBytes
       ELSE /\ cpc' = "loop"
            /\ remainingBytes' = Len(programmer)
  /\ UNCHANGED <<programmer, usbConnected, qdlMode, saharaMode, saharaId,
                 firehoseObj, loopFrame, lastWrite, endOk, doneSent, doneRsp,
                 upRet>>
  /\ UNCHANGED notConn

\* uploadLoader returns v to qdlDevice.connect, line 52
UploadReturns(v) ==
  /\ upRet' = v
  /\ qdlMode' = v
  /\ cpc' = "check"

\* one turn of the transfer loop, lines 371-409
UploadLoop ==
  /\ cpc = "loop"
  /\ \E raw \in DeviceFrames :
       LET res == GetResponse(raw)
       IN /\ loopFrame' = raw
          /\ IF ~res.hasCmd
             THEN \* "Timeout while uploading loader"
                  /\ cpc' = "failed"
                  /\ UNCHANGED <<saharaMode, saharaId, remainingBytes,
                                 lastWrite, endOk, doneSent, upRet, qdlMode>>
             ELSE IF raw.cmd = SAHARA_64BIT_MEMORY_READ_DATA
             THEN /\ saharaId' = raw.a
                  /\ IF raw.a < MinImageId
                     THEN \* "Unknown sahara id"
                          /\ cpc' = "failed"
                          /\ UNCHANGED <<saharaMode, remainingBytes, lastWrite,
                                         upRet, qdlMode>>
                     ELSE /\ saharaMode' = "firehose"
                          /\ lastWrite' =
                               [served |-> TRUE, off |-> raw.b, len |-> raw.c,
                                data |-> DataToWrite(programmer, raw.b, raw.c)]
                          /\ remainingBytes' = remainingBytes - raw.c
                          /\ IF remainingBytes - raw.c >= 0
                             THEN /\ cpc' = "loop"
                                  /\ UNCHANGED <<upRet, qdlMode>>
                             ELSE \* the while condition fails: line 410
                                  UploadReturns("firehose")
                  /\ UNCHANGED <<endOk, doneSent>>
             ELSE IF raw.cmd = SAHARA_END_TRANSFER
                     /\ raw.b = SAHARA_STATUS_SUCCESS
             THEN \* cmdDone writes DONE_REQ
                  /\ endOk' = TRUE
                  /\ doneSent' = TRUE
                  /\ cpc' = "done"
                  /\ UNCHANGED <<saharaMode, saharaId, remainingBytes,
                                 lastWrite, upRet, qdlMode>>
             ELSE \* no branch takes the frame: the loop reads the next one
                  /\ cpc' = "loop"
                  /\ UNCHANGED <<saharaMode, saharaId, remainingBytes,
                                 lastWrite, endOk, doneSent, upRet, qdlMode>>
  /\ UNCHANGED <<programmer, usbConnected, firehoseObj, doneRsp>>
  /\ UNCHANGED notConn

\* cmdDone, lines 416-433, and uploadLoader lines 402-406
CmdDone ==
  /\ cpc = "done"
  /\ \E raw \in DeviceFrames :
       LET res == GetResponse(raw)
       IN IF res.hasCmd /\ raw.cmd = SAHARA_DONE_RSP
          THEN /\ doneRsp' = TRUE
               /\ UploadReturns(saharaMode)
          ELSE /\ cpc' = "failed"
               /\ UNCHANGED <<doneRsp, upRet, qdlMode>>
  /\ UNCHANGED <<programmer, usbConnected, saharaMode, saharaId,
                 remainingBytes, firehoseObj, loopFrame, lastWrite, endOk,
                 doneSent>>
  /\ UNCHANGED notConn

\* a bulk write of the Sahara session rejects: uploadLoader throws
SaharaWriteFails ==
  /\ cpc \in {"enter_cmd", "serial", "reprobe", "loop", "done"}
  /\ cpc' = "failed"
  /\ UNCHANGED <<programmer, usbConnected, qdlMode, saharaMode, saharaId,
                 remainingBytes, firehoseObj, loopFrame, lastWrite, endOk,
                 doneSent, doneRsp, upRet>>
  /\ UNCHANGED notConn

\* qdlDevice.connect, lines 54-57: the mode check, then #firehose is set
QdlCheckMode ==
  /\ cpc = "check"
  /\ IF qdlMode # "firehose"
     THEN /\ cpc' = "failed"
          /\ UNCHANGED firehoseObj
     ELSE /\ firehoseObj' = "set"
          /\ cpc' = "configure"
  /\ UNCHANGED <<programmer, usbConnected, qdlMode, saharaMode, saharaId,
                 remainingBytes, loopFrame, lastWrite, endOk, doneSent,
                 doneRsp, upRet>>
  /\ UNCHANGED notConn

\* what a device answers to <configure>: the value of its response, if any,
\* and whether its log holds "Calling handler for configure" and the
\* storage type line
ConfigureAnswers ==
  [value : {"ACK", "NAK", "none"}, handler : BOOLEAN, storage : BOOLEAN]

\* qdlDevice.connect, line 58: Firehose.configure sends <configure> through
\* xmlSend, drops what xmlSend returns and returns true; it fails only when
\* a bulk read of xmlSend rejects
QdlConfigure ==
  /\ cpc = "configure"
  /\ cfgAnswer' \in ConfigureAnswers
  /\ \E readRejects \in BOOLEAN :
       cpc' = IF readRejects THEN "failed" ELSE "connected"
  /\ UNCHANGED <<programmer, usbConnected, qdlMode, saharaMode, saharaId,
                 remainingBytes, firehoseObj, loopFrame, lastWrite, endOk,
                 doneSent, doneRsp, upRet>>
  /\ UNCHANGED <<flashVars, infoVars, eraseVars, slotVars, setSlotVars,
                 repairVars, sparseVars, programVars, readBufferVars,
                 flashBlobVars, xmlVars, probeVars, headerVars, waitVars,
                 streamVars, patchVars, checkVars, loggerVars, timeoutVars>>

ConnNext ==
  \/ QdlOpenUsb
  \/ QdlSaharaConnect
  \/ EnterCommandMode
  \/ CmdGetSerialNum
  \/ Reprobe
  \/ UploadLoop
  \/ CmdDone
  \/ SaharaWriteFails
  \/ QdlCheckMode
  \/ QdlConfigure

InitConnect == ConnInit /\ FlashIdle /\ InfoIdle /\ EraseIdle /\ SlotIdle /\ SetSlotIdle /\ RepairIdle /\ SparseIdle /\ ProgramIdle /\ ReadBufferIdle /\ ConfigIdle /\ FlashBlobIdle /\ XmlIdle /\ ProbeIdle /\ HeaderIdle /\ WaitIdle /\ StreamIdle /\ PatchIdle /\ CheckIdle /\ LoggerIdle /\ TimeoutIdle

SpecConnect == InitConnect /\ [][ConnNext]_vars

(***************************************************************************)
(* The sparse reader and the inputs of flashBlob                           *)
(***************************************************************************)
\* the connect variables while another flow runs
ConnIdle ==
  /\ programmer = <<>>
  /\ cpc = "idle"
  /\ usbConnected = TRUE
  /\ qdlMode = "firehose"
  /\ saharaMode = ""
  /\ saharaId = -1
  /\ remainingBytes = 0
  /\ firehoseObj = "set"
  /\ loopFrame = NoFrame
  /\ lastWrite = NoWrite
  /\ endOk = FALSE
  /\ doneSent = FALSE
  /\ doneRsp = FALSE
  /\ upRet = "none"

CeilDiv(a, b) == (a + b - 1) \div b

ChunkTypes == {"Raw", "Fill", "Skip"}
BlockCounts == {1, 2}
BlockSizes == {SECTOR_SIZE_IN_BYTES \div 2, SECTOR_SIZE_IN_BYTES}

Chunk(type, blocks) == [type |-> type, blocks |-> blocks]

ChunkLists ==
  UNION {[1..n -> {Chunk(t, b) : t \in ChunkTypes, b \in BlockCounts}] :
           n \in 1..MaxChunks}

\* bytes a chunk takes in the sparse file
ChunkTotalBytes(c, blockSize) ==
  CHUNK_HEADER_SIZE +
    (IF c.type = "Raw" THEN c.blocks * blockSize
     ELSE IF c.type = "Fill" THEN 4 ELSE 0)

RECURSIVE SumTotalBytes(_, _)
SumTotalBytes(chunks, blockSize) ==
  IF chunks = <<>> THEN 0
  ELSE ChunkTotalBytes(Head(chunks), blockSize)
         + SumTotalBytes(Tail(chunks), blockSize)

SparseImage(chunks, blockSize) ==
  [sparse |-> TRUE, blockSize |-> blockSize, chunks |-> chunks,
   size |-> FILE_HEADER_SIZE + SumTotalBytes(chunks, blockSize)]

RawImage(size) ==
  [sparse |-> FALSE, blockSize |-> 0, chunks |-> <<>>, size |-> size]

RawSizes == {100, SECTOR_SIZE_IN_BYTES, 3 * SECTOR_SIZE_IN_BYTES}

Images ==
  {SparseImage(cs, bs) : cs \in ChunkLists, bs \in BlockSizes}
    \cup {RawImage(n) : n \in RawSizes}

\* Sparse.read(): one record (offset, data or hole, size) per chunk, offsets
\* cumulative; a Skip chunk is a hole
RECURSIVE SparseRead(_, _, _)
SparseRead(chunks, blockSize, offset) ==
  IF chunks = <<>> THEN <<>>
  ELSE LET c == Head(chunks)
           size == c.blocks * blockSize
       IN <<[offset |-> offset, hole |-> (c.type = "Skip"), size |-> size]>>
            \o SparseRead(Tail(chunks), blockSize, offset + size)

\* partitions detectPartition may find: lun, first sector, sector count
Partitions ==
  {[lun |-> 0, sector |-> 6, sectors |-> 8],
   [lun |-> 4, sector |-> 2 * SECTOR_SIZE_IN_BYTES, sectors |-> 3],
   [lun |-> 1, sector |-> 0, sectors |-> 1]}

(***************************************************************************)
(* The device end of the Firehose transport                                *)
(***************************************************************************)
\* what the device may answer to a command request
RequestAnswers ==
  {Response(v, r) : v \in {"none", "ACK", "NAK", "true"},
                    r \in {"none", "true", "false"}}

\* what the device may answer once it has taken the payload
FinalAnswers == {Response("ACK", "false"), Response("NAK", "false")}

\* xmlParser.getResponse over the documents read so far: attributes of all
\* <response> elements, the later one winning
Merge(r, p) ==
  Response(IF p.value # "none" THEN p.value ELSE r.value,
           IF p.rawmode # "none" THEN p.rawmode ELSE r.rawmode)

\* the device sends the oldest response it still holds
DeviceDeliver ==
  /\ devOut # <<>>
  /\ inbox' = Append(inbox, Head(devOut))
  /\ devOut' = Tail(devOut)
  /\ UNCHANGED <<part, image, recs, fpc, cur, cph, rData, counter, devRaw,
                 cmdNo, issued, lastXml, taken>>
  /\ UNCHANGED notFlash

(***************************************************************************)
(* Firehose.xmlSend, cmdProgram, cmdErase                                  *)
(***************************************************************************)
\* xmlSend, line 84
XmlSendStatus(resp) ==
  resp.value = "none" \/ resp.value = "ACK" \/ resp.value = "true"

\* xmlSend, lines 85-99: the resp field of what it returns
XmlSendResp(resp) ==
  IF resp.rawmode # "none"
  THEN IF resp.rawmode = "false" THEN XmlSendStatus(resp) ELSE TRUE
  ELSE IF XmlSendStatus(resp) THEN XmlSendStatus(resp) ELSE TRUE

\* the request of a command is written (xmlSend, line 66) and the device
\* decides its answer
IssueCmd(op, lun, start, nsect, offset) ==
  \E ans \in RequestAnswers :
    /\ cmdNo' = cmdNo + 1
    /\ cur' = [op |-> op, lun |-> lun, start |-> start, nsect |-> nsect,
               offset |-> offset, no |-> cmdNo + 1, reqAns |-> ans.value,
               finAns |-> "none", streamed |-> FALSE, result |-> "none"]
    /\ issued' = Append(issued, [op |-> op, lun |-> lun, start |-> start,
                                 nsect |-> nsect, offset |-> offset,
                                 no |-> cmdNo + 1, reqAns |-> ans.value,
                                 finAns |-> "none"])
    /\ devOut' = Append(devOut, Packet(ans.value, ans.rawmode, cmdNo + 1, "req"))
    /\ devRaw' = (ans.value = "ACK" /\ ans.rawmode = "true")
    /\ cph' = "xmlread"
    /\ rData' = NoResponse
    /\ counter' = 0

\* the running command returns result to its caller
CmdReturns(result) ==
  /\ cur' = [cur EXCEPT !.result = result]
  /\ cph' = "returned"

\* a read loop ends with the merged response m:
\* xmlSend lines 83-99 with cmdProgram line 219 / cmdErase line 283, or
\* waitForData with cmdProgram lines 252-264 / cmdErase lines 291-301
LoopExit(m) ==
  IF cph = "xmlread"
  THEN /\ lastXml' = [set |-> TRUE, resp |-> m, ok |-> XmlSendResp(m)]
       /\ IF XmlSendResp(m)
          THEN /\ cph' = "stream"
               /\ UNCHANGED cur
          ELSE CmdReturns("true")
  ELSE /\ UNCHANGED lastXml
       /\ IF m.value = "ACK" THEN CmdReturns("true")
          ELSE IF cur.op = "cmdProgram" THEN CmdReturns("false")
          ELSE CmdReturns("throw")

\* one cdc.read() of the loop of xmlSend (lines 71-81) or of waitForData
\* (lines 174-184): a packet when the device has sent one, else a
\* zero-length transfer, which counts towards giving up
ReadStep ==
  /\ cph \in {"xmlread", "waitread"}
  /\ IF inbox # <<>>
     THEN LET p == Head(inbox)
              m == Merge(rData, p)
          IN /\ inbox' = Tail(inbox)
             /\ taken' = [by |-> cur.no, for |-> p.for]
             /\ rData' = m
             /\ UNCHANGED counter
             /\ IF m.value # "none"
                THEN LoopExit(m)
                ELSE UNCHANGED <<cur, cph, lastXml>>
     ELSE /\ counter' = counter + 1
          /\ UNCHANGED <<inbox, taken, rData>>
          /\ IF counter + 1 >= EmptyReadLimit
             THEN LoopExit(rData)
             ELSE UNCHANGED <<cur, cph, lastXml>>
  /\ UNCHANGED <<part, image, recs, fpc, devOut, devRaw, cmdNo, issued>>
  /\ UNCHANGED notFlash

\* the payload is streamed (cmdProgram lines 220-250, cmdErase lines
\* 284-289); a device in raw mode answers it, then waitForData starts
StreamPayload ==
  /\ cph = "stream"
  /\ IF devRaw
     THEN \E ans \in FinalAnswers :
            /\ devOut' = Append(devOut, Packet(ans.value, ans.rawmode, cur.no, "fin"))
            /\ cur' = [cur EXCEPT !.streamed = TRUE, !.finAns = ans.value]
            /\ issued' = [issued EXCEPT ![Len(issued)].finAns = ans.value]
     ELSE /\ UNCHANGED <<devOut, issued>>
          /\ cur' = [cur EXCEPT !.streamed = TRUE]
  /\ devRaw' = FALSE
  /\ cph' = "waitread"
  /\ rData' = NoResponse
  /\ counter' = 0
  /\ UNCHANGED <<part, image, recs, fpc, inbox, cmdNo, lastXml, taken>>
  /\ UNCHANGED notFlash

(***************************************************************************)
(* qdlDevice.flashBlob                                                     *)
(***************************************************************************)
FlashInit ==
  /\ part \in Partitions
  /\ image \in Images
  /\ recs = <<>>
  /\ fpc = "start"
  /\ cur = NoCmd
  /\ cph = "idle"
  /\ rData = NoResponse
  /\ counter = 0
  /\ inbox = <<>>
  /\ devOut = <<>>
  /\ devRaw = FALSE
  /\ cmdNo = 0
  /\ issued = <<>>
  /\ lastXml = NoXml
  /\ taken = NoTaken

\* flashBlob, line 252: the sector a chunk at byte offset is programmed at
ChunkSector(start, offset) ==
  (start + offset) \div SECTOR_SIZE_IN_BYTES

\* records left after the holes at the front are skipped (line 248)
RECURSIVE SkipHoles(_)
SkipHoles(rs) ==
  IF rs = <<>> THEN <<>>
  ELSE IF Head(rs).hole THEN SkipHoles(Tail(rs)) ELSE rs

\* flashBlob, lines 246-260: the loop over sparse.read() up to the next
\* cmdProgram request, or to the end of flashBlob
FlashNextChunk(rs) ==
  LET rest == SkipHoles(rs)
  IN IF rest = <<>>
     THEN /\ fpc' = "ret_true"
          /\ recs' = <<>>
          /\ cph' = "idle"
          /\ UNCHANGED <<cur, rData, counter, devOut, devRaw, cmdNo, issued>>
     ELSE IF Head(rest).offset % SECTOR_SIZE_IN_BYTES # 0
     THEN /\ fpc' = "thrown"
          /\ recs' = rest
          /\ cph' = "idle"
          /\ UNCHANGED <<cur, rData, counter, devOut, devRaw, cmdNo, issued>>
     ELSE /\ fpc' = "chunks"
          /\ recs' = Tail(rest)
          /\ IssueCmd("cmdProgram", part.lun,
                      ChunkSector(part.sector, Head(rest).offset),
                      CeilDiv(Head(rest).size, SECTOR_SIZE_IN_BYTES),
                      Head(rest).offset)

\* flashBlob, lines 230-245: the size check, then the single cmdProgram of a
\* raw image or the cmdErase that precedes the chunks of a sparse one
FlashStart ==
  /\ fpc = "start"
  /\ IF CeilDiv(image.size, SECTOR_SIZE_IN_BYTES) > part.sectors
     THEN /\ fpc' = "ret_false"
          /\ UNCHANGED <<recs, cur, cph, rData, counter, devOut, devRaw,
                         cmdNo, issued>>
     ELSE IF ~image.sparse
     THEN /\ fpc' = "raw"
          /\ UNCHANGED recs
          /\ IssueCmd("cmdProgram", part.lun, part.sector,
                      CeilDiv(image.size, SECTOR_SIZE_IN_BYTES), 0)
     ELSE /\ fpc' = "erase"
          /\ recs' = SparseRead(image.chunks, image.blockSize, 0)
          /\ IssueCmd("cmdErase", part.lun, part.sector, part.sectors, 0)
  /\ UNCHANGED <<part, image, inbox, lastXml, taken>>
  /\ UNCHANGED notFlash

\* flashBlob after the command it awaited has returned: lines 239, 242-245
\* and 254-257
FlashContinue ==
  /\ cph = "returned"
  /\ IF fpc = "raw"
     THEN /\ fpc' = IF cur.result = "true" THEN "ret_true" ELSE "ret_false"
          /\ cph' = "idle"
          /\ UNCHANGED <<recs, cur, rData, counter, devOut, devRaw, cmdNo,
                         issued>>
     ELSE IF cur.result = "throw"
     THEN /\ fpc' = "thrown"
          /\ cph' = "idle"
          /\ UNCHANGED <<recs, cur, rData, counter, devOut, devRaw, cmdNo,
                         issued>>
     ELSE IF cur.result = "false"
     THEN /\ fpc' = "ret_false"
          /\ cph' = "idle"
          /\ UNCHANGED <<recs, cur, rData, counter, devOut, devRaw, cmdNo,
                         issued>>
     ELSE FlashNextChunk(recs)
  /\ UNCHANGED <<part, image, inbox, lastXml, taken>>
  /\ UNCHANGED notFlash

FlashNext ==
  \/ FlashStart
  \/ ReadStep
  \/ StreamPayload
  \/ FlashContinue
  \/ DeviceDeliver

InitFlash == FlashInit /\ ConnIdle /\ InfoIdle /\ EraseIdle /\ SlotIdle /\ SetSlotIdle /\ RepairIdle /\ SparseIdle /\ ProgramIdle /\ ReadBufferIdle /\ ConfigIdle /\ FlashBlobIdle /\ XmlIdle /\ ProbeIdle /\ HeaderIdle /\ WaitIdle /\ StreamIdle /\ PatchIdle /\ CheckIdle /\ LoggerIdle /\ TimeoutIdle

SpecFlash == InitFlash /\ [][FlashNext]_vars

(***************************************************************************)
(* getDeviceInfo: getActiveSlot and getStorageInfo started together        *)
(***************************************************************************)
InfoPacket(kind, value, rawmode, for) ==
  [kind |-> kind, value |-> value, rawmode |-> rawmode, for |-> for]

\* what the device sends for a <read> request: the response, and when it
\* ACKs in raw mode the sector data and the closing response
ReadAnswers ==
  {<<InfoPacket("resp", "ACK", "true", "slot"),
     InfoPacket("data", "none", "none", "slot"),
     InfoPacket("resp", v, "false", "slot")>> : v \in {"ACK", "NAK"}}
    \cup {<<InfoPacket("resp", "NAK", "false", "slot")>>}

\* what the device sends for a <getstorageinfo> request
StorageAnswers ==
  {<<InfoPacket("resp", v, "false", "storage")>> : v \in {"ACK", "NAK"}}

\* getDeviceInfo, lines 158-161: both calls run up to their first
\* suspension, which is after transferOut of their request (xmlSend line 66)
InfoStart ==
  /\ \A t \in Tasks : infoPc[t] = "idle"
  /\ \E ra \in ReadAnswers, sa \in StorageAnswers :
       wire' = wire \o ra \o sa
  /\ infoPc' = [t \in Tasks |-> "xmlread"]
  /\ slotReads' = 1
  /\ inFlight' = Tasks
  /\ UNCHANGED <<infoCount, infoData>>
  /\ UNCHANGED notInfo

\* the command of task t has returned: cmdReadBuffer to getGpt, which goes
\* on to its next read, or cmdGetStorageInfo (line 345) to getStorageInfo
InfoCmdReturns(t, ok) ==
  /\ inFlight' = inFlight \ {t}
  /\ infoPc' = [infoPc EXCEPT ![t] =
       IF t = "slot"
       THEN IF slotReads < MaxReads THEN "between" ELSE "done"
       ELSE IF ok THEN "done" ELSE "failed"]

\* the read loop of task t ends with the merged response m
InfoLoopExit(t, m) ==
  IF infoPc[t] = "xmlread"
  THEN IF t = "slot" /\ XmlSendResp(m)
       THEN /\ infoPc' = [infoPc EXCEPT ![t] = "data"]
            /\ UNCHANGED inFlight
       ELSE InfoCmdReturns(t, XmlSendResp(m) /\ m.rawmode = "false")
  ELSE InfoCmdReturns(t, m.value = "ACK")

\* one cdc.read() of task t: the next packet the device sends, whichever
\* command it answers, or a zero-length transfer
InfoRead(t) ==
  /\ infoPc[t] \in {"xmlread", "data", "waitread"}
  /\ \/ /\ wire # <<>>
        /\ wire' = Tail(wire)
        /\ UNCHANGED infoCount
        /\ LET p == Head(wire)
               m == Merge(infoData[t], p)
           IN IF infoPc[t] = "data"
              THEN /\ infoData' = [infoData EXCEPT ![t] = NoResponse]
                   /\ infoPc' = [infoPc EXCEPT ![t] =
                        IF p.kind = "data" THEN "waitread" ELSE "data"]
                   /\ UNCHANGED inFlight
              ELSE IF p.kind = "resp" /\ m.value # "none"
              THEN /\ infoData' = [infoData EXCEPT ![t] = NoResponse]
                   /\ InfoLoopExit(t, m)
              ELSE /\ infoData' = [infoData EXCEPT ![t] = m]
                   /\ UNCHANGED <<infoPc, inFlight>>
     \/ /\ infoPc[t] # "data"
        /\ UNCHANGED wire
        /\ IF infoCount[t] + 1 >= EmptyReadLimit
           THEN /\ infoCount' = [infoCount EXCEPT ![t] = 0]
                /\ infoData' = [infoData EXCEPT ![t] = NoResponse]
                /\ InfoLoopExit(t, infoData[t])
           ELSE /\ infoCount' = [infoCount EXCEPT ![t] = infoCount[t] + 1]
                /\ UNCHANGED <<infoData, infoPc, inFlight>>
  /\ UNCHANGED slotReads
  /\ UNCHANGED notInfo

\* getGpt, line 69: the request of the next cmdReadBuffer is written
InfoNextRead ==
  /\ infoPc["slot"] = "between"
  /\ \E ra \in ReadAnswers : wire' = wire \o ra
  /\ infoPc' = [infoPc EXCEPT !["slot"] = "xmlread"]
  /\ slotReads' = slotReads + 1
  /\ inFlight' = inFlight \cup {"slot"}
  /\ UNCHANGED <<infoCount, infoData>>
  /\ UNCHANGED notInfo

InfoNext ==
  \/ InfoStart
  \/ \E t \in Tasks : InfoRead(t)
  \/ InfoNextRead

InitInfo == InfoIdle /\ ConnIdle /\ FlashIdle /\ EraseIdle /\ SlotIdle /\ SetSlotIdle /\ RepairIdle /\ SparseIdle /\ ProgramIdle /\ ReadBufferIdle /\ ConfigIdle /\ FlashBlobIdle /\ XmlIdle /\ ProbeIdle /\ HeaderIdle /\ WaitIdle /\ StreamIdle /\ PatchIdle /\ CheckIdle /\ LoggerIdle /\ TimeoutIdle

SpecInfo == InitInfo /\ [][InfoNext]_vars

(***************************************************************************)
(* qdlDevice.eraseLun and qdlDevice.erase                                  *)
(***************************************************************************)
Range(start, end) == [start |-> start, end |-> end]

Partf(name, sector, sectors) ==
  [name |-> name, sector |-> sector, sectors |-> sectors]

\* a small disk: sectors 0..9, entries usable from 3 to 7
SmallGpts ==
  {Gpt(3, 7, 9, ps) :
     ps \in {a \cup b :
               a \in {{}, {Partf("persist", 3, 2)}, {Partf("persist", 4, 1)},
                      {Partf("persist", 5, 3)}},
               b \in {{}, {Partf("cache", 4, 2)}, {Partf("cache", 3, 5)},
                      {Partf("cache", 6, 1)}}}}

\* disks with ranges longer than maxSectors
LargeGpts ==
  {Gpt(6, 2 * maxSectors + 100, 2 * maxSectors + 105,
       {Partf("persist", 6, 8), Partf("cache", 14, maxSectors + 3)}),
   Gpt(6, 2 * maxSectors + 100, 2 * maxSectors + 105,
       {Partf("persist", 2 * maxSectors + 50, 10)}),
   Gpt(6, maxSectors + 5, maxSectors + 10, {Partf("cache", 6, maxSectors)})}

Gpts == SmallGpts \cup LargeGpts

PreserveNames == {"mbr", "gpt", "persist", "cache"}

PreserveLists == UNION {[1..n -> PreserveNames] : n \in 0..MaxPreserve}

Present(gpt, name) == \E p \in gpt.partentries : p.name = name

Entry(gpt, name) == CHOOSE p \in gpt.partentries : p.name = name

\* eraseLun, lines 134-138: the ranges of the preserved partitions present
RECURSIVE PartitionRanges(_, _)
PartitionRanges(gpt, names) ==
  IF names = <<>> THEN <<>>
  ELSE (IF Present(gpt, Head(names))
        THEN LET part_ == Entry(gpt, Head(names))
             IN <<Range(part_.sector, part_.sector + part_.sectors - 1)>>
        ELSE <<>>)
         \o PartitionRanges(gpt, Tail(names))

Includes(names, name) == \E i \in 1..Len(names) : names[i] = name

\* eraseLun, lines 126-138
ProtectedRanges(gpt, names) ==
  (IF Includes(names, "mbr") THEN <<Range(0, 0)>> ELSE <<>>)
    \o (IF Includes(names, "gpt")
        THEN <<Range(gpt.currentLba, gpt.firstUsableLba - 1),
               Range(gpt.lastUsableLba + 1, gpt.backupLba)>>
        ELSE <<>>)
    \o PartitionRanges(gpt, names)

\* Array.prototype.sort with (a, b) => a.start - b.start: stable, by start
RECURSIVE InsertRange(_, _)
InsertRange(r, sorted) ==
  IF sorted = <<>> THEN <<r>>
  ELSE IF r.start < Head(sorted).start THEN <<r>> \o sorted
  ELSE <<Head(sorted)>> \o InsertRange(r, Tail(sorted))

RECURSIVE SortRanges(_)
SortRanges(rs) ==
  IF rs = <<>> THEN <<>>
  ELSE InsertRange(rs[Len(rs)], SortRanges(SubSeq(rs, 1, Len(rs) - 1)))

MathMax(a, b) == IF a >= b THEN a ELSE b

MathMin(a, b) == IF a <= b THEN a ELSE b

\* a merge that takes the end of the later range
LastEnd(a, b) == b

\* eraseLun, line 147: the end of two merged ranges
MergedEnd(a, b) == MathMax(a, b)

\* eraseLun, lines 144-153: the loop that coalesces the sorted ranges
RECURSIVE MergeLoop(_, _, _)
MergeLoop(currentRange, rest, merged) ==
  IF rest = <<>> THEN Append(merged, currentRange)
  ELSE LET nextRange == Head(rest)
       IN IF nextRange.start <= currentRange.end + 1
          THEN MergeLoop(Range(currentRange.start,
                               MergedEnd(currentRange.end, nextRange.end)),
                         Tail(rest), merged)
          ELSE MergeLoop(nextRange, Tail(rest), Append(merged, currentRange))

\* eraseLun, lines 141-155
MergedProtectedRanges(sorted) ==
  IF sorted = <<>> THEN <<>>
  ELSE MergeLoop(Head(sorted), Tail(sorted), <<>>)

\* eraseLun, lines 161-167: the gaps before each protected range
RECURSIVE GapLoop(_, _, _)
GapLoop(merged, lastEndSector, erasable) ==
  IF merged = <<>>
  THEN [erasable |-> erasable, lastEndSector |-> lastEndSector]
  ELSE LET range == Head(merged)
       IN GapLoop(Tail(merged), range.end,
                  IF range.start > lastEndSector + 1
                  THEN Append(erasable,
                              Range(lastEndSector + 1, range.start - 1))
                  ELSE erasable)

\* eraseLun, lines 160-170
ErasableRanges(gpt, names) ==
  LET merged == MergedProtectedRanges(SortRanges(ProtectedRanges(gpt, names)))
      g == GapLoop(merged, -1, <<>>)
  IN IF g.lastEndSector < gpt.backupLba
     THEN Append(g.erasable, Range(g.lastEndSector + 1, gpt.backupLba))
     ELSE g.erasable

\* Firehose.cmdErase, lines 279-301, on a device that answers at once: req
\* to the request and, when it went to raw mode, fin after the payload
CmdEraseResult(req, fin) ==
  IF ~XmlSendResp(req) THEN "true"
  ELSE IF fin.value = "ACK" THEN "true"
  ELSE "throw"

\* the answers a device gives to one cmdErase
EraseAnswers ==
  {<<req, fin>> \in RequestAnswers \X (FinalAnswers \cup {NoResponse}) :
     (fin # NoResponse) <=> (req.value = "ACK" /\ req.rawmode = "true")}

EraseInit ==
  /\ eraseFlow \in {"eraseLun", "erase"}
  /\ mainGpt \in Gpts
  /\ IF eraseFlow = "eraseLun"
     THEN /\ preservePartitions \in PreserveLists
          /\ partitionName = "none"
     ELSE /\ preservePartitions = <<>>
          /\ partitionName \in {"persist", "cache"}
  /\ erasableLeft = <<>>
  /\ curSector = 0
  /\ erased = <<>>
  /\ epc = "start"

\* one cmdErase(lun, start, nsect) and what the device said to it
ErasedCall(start, nsect, a) ==
  [start |-> start, nsect |-> nsect,
   refused |-> (a[1].value = "NAK" \/ a[2].value # "ACK")]

\* eraseLun, lines 121-172: up to the chunk loop
EraseLunStart ==
  /\ eraseFlow = "eraseLun"
  /\ epc = "start"
  /\ LET ranges == ErasableRanges(mainGpt, preservePartitions)
     IN /\ erasableLeft' = ranges
        /\ curSector' = IF ranges = <<>> THEN 0 ELSE Head(ranges).start
        /\ epc' = IF ranges = <<>> THEN "ret_true" ELSE "loop"
  /\ UNCHANGED <<eraseFlow, mainGpt, preservePartitions, partitionName, erased>>
  /\ UNCHANGED notErase

\* eraseLun, lines 179-188: one turn of the chunk loop, and the steps to the
\* next cmdErase or to the return
EraseLunChunk ==
  /\ eraseFlow = "eraseLun"
  /\ epc = "loop"
  /\ LET range == Head(erasableLeft)
         chunkSectors == MathMin(range.end - curSector + 1, maxSectors)
         next == curSector + chunkSectors
     IN \E a \in EraseAnswers :
          /\ erased' = Append(erased, ErasedCall(curSector, chunkSectors, a))
          /\ IF CmdEraseResult(a[1], a[2]) = "throw"
             THEN /\ epc' = "thrown"
                  /\ UNCHANGED <<erasableLeft, curSector>>
             ELSE IF CmdEraseResult(a[1], a[2]) # "true"
             THEN /\ epc' = "ret_false"
                  /\ UNCHANGED <<erasableLeft, curSector>>
             ELSE IF next <= range.end
             THEN /\ curSector' = next
                  /\ UNCHANGED <<erasableLeft, epc>>
             ELSE IF Tail(erasableLeft) = <<>>
             THEN /\ epc' = "ret_true"
                  /\ erasableLeft' = <<>>
                  /\ curSector' = next
             ELSE /\ erasableLeft' = Tail(erasableLeft)
                  /\ curSector' = Head(Tail(erasableLeft)).start
                  /\ UNCHANGED epc
  /\ UNCHANGED <<eraseFlow, mainGpt, preservePartitions, partitionName>>
  /\ UNCHANGED notErase

\* erase(partitionName), lines 263-275, on the LUN that holds the GPT
QdlErase ==
  /\ eraseFlow = "erase"
  /\ epc = "start"
  /\ IF Present(mainGpt, partitionName)
     THEN LET partition == Entry(mainGpt, partitionName)
          IN \E a \in EraseAnswers :
               /\ erased' = Append(erased, ErasedCall(partition.sector,
                                                     partition.sectors, a))
               /\ epc' = IF CmdEraseResult(a[1], a[2]) = "throw"
                         THEN "thrown" ELSE "ret_true"
     ELSE /\ epc' = "ret_true"
          /\ UNCHANGED erased
  /\ UNCHANGED <<eraseFlow, mainGpt, preservePartitions, partitionName,
                 erasableLeft, curSector>>
  /\ UNCHANGED notErase

EraseNext ==
  \/ EraseLunStart
  \/ EraseLunChunk
  \/ QdlErase

InitErase == EraseInit /\ ConnIdle /\ FlashIdle /\ InfoIdle /\ SlotIdle /\ SetSlotIdle /\ RepairIdle /\ SparseIdle /\ ProgramIdle /\ ReadBufferIdle /\ ConfigIdle /\ FlashBlobIdle /\ XmlIdle /\ ProbeIdle /\ HeaderIdle /\ WaitIdle /\ StreamIdle /\ PatchIdle /\ CheckIdle /\ LoggerIdle /\ TimeoutIdle

SpecErase == InitErase /\ [][EraseNext]_vars

(***************************************************************************)
(* GPT partition entries and the A/B slot flags                            *)
(***************************************************************************)
RECURSIVE BitAnd(_, _)
BitAnd(a, b) ==
  IF a = 0 \/ b = 0 THEN 0
  ELSE (a % 2) * (b % 2) + 2 * BitAnd(a \div 2, b \div 2)

BitOr(a, b) == a + b - BitAnd(a, b)

\* a & ~m
BitClear(a, m) == a - BitAnd(a, m)

\* a 64-bit attributes value: ab is attributes >> AB_FLAG_OFFSET (the top
\* 10 bits), low is the 54 bits below
Attributes(low, ab) == [low |-> low, ab |-> ab]

\* a partition name: what is before the last two characters, and those two
\* when they are "_a" or "_b"
Name(base, suffix) == [base |-> base, suffix |-> suffix]

PartEntry(name, used, attributes) ==
  [name |-> name, used |-> used, attributes |-> attributes]

EntryNames ==
  {Name("boot", "_a"), Name("boot", "_b"), Name("system", "_a"),
   Name("system", "_b"), Name("persist", "")}

EntryAttributes ==
  {Attributes(0, 0),
   Attributes(5, AB_PARTITION_ATTR_SLOT_ACTIVE + 256),
   Attributes(0, AB_PARTITION_ATTR_BOOT_SUCCESSFUL
                   + AB_PARTITION_ATTR_UNBOOTABLE)}

Entries ==
  {PartEntry(n, u, a) : n \in EntryNames, u \in BOOLEAN, a \in EntryAttributes}

EntryLists == UNION {[1..n -> Entries] : n \in 0..MaxEntries}

\* parseABFlags, lines 288-296
parseABFlags(attributes) ==
  LET abFlags == attributes.ab
  IN [active |-> BitAnd(abFlags, AB_PARTITION_ATTR_SLOT_ACTIVE) # 0,
      successful |-> BitAnd(abFlags, AB_PARTITION_ATTR_BOOT_SUCCESSFUL) # 0,
      unbootable |-> BitAnd(abFlags, AB_PARTITION_ATTR_UNBOOTABLE) # 0,
      triesRemaining |->
        BitAnd(abFlags, AB_PARTITION_ATTR_TRIES_MASK) \div 256]

\* an update that leaves the flags already set in place
updateABFlagsKeep(attributes, active, successful, unbootable, triesRemaining) ==
  Attributes(attributes.low,
    BitOr(BitOr(BitOr(BitOr(attributes.ab,
      IF active THEN AB_PARTITION_ATTR_SLOT_ACTIVE ELSE 0),
      IF successful THEN AB_PARTITION_ATTR_BOOT_SUCCESSFUL ELSE 0),
      IF unbootable THEN AB_PARTITION_ATTR_UNBOOTABLE ELSE 0),
      ((triesRemaining % 16) * 256) % 1024))

\* updateABFlags, lines 307-320.  Line 310 is ret &= (~mask) << 54: the
\* complement is shifted, so the 54 bits below the A/B field are cleared
\* with the four flags.  Tries bits above bit 63 do not fit the field.
updateABFlags(attributes, active, successful, unbootable, triesRemaining) ==
  LET mask == AB_PARTITION_ATTR_SLOT_ACTIVE + AB_PARTITION_ATTR_BOOT_SUCCESSFUL
                + AB_PARTITION_ATTR_UNBOOTABLE + AB_PARTITION_ATTR_TRIES_MASK
      r0 == BitClear(attributes.ab, mask)
      r1 == IF active THEN BitOr(r0, AB_PARTITION_ATTR_SLOT_ACTIVE) ELSE r0
      r2 == IF successful
            THEN BitOr(r1, AB_PARTITION_ATTR_BOOT_SUCCESSFUL) ELSE r1
      r3 == IF unbootable THEN BitOr(r2, AB_PARTITION_ATTR_UNBOOTABLE) ELSE r2
      triesValue == ((triesRemaining % 16) * 256) % 1024
  IN Attributes(0, BitOr(r3, triesValue))

\* GPT.getActiveSlot, lines 257-268
RECURSIVE GptGetActiveSlot(_)
GptGetActiveSlot(entries) ==
  IF entries = <<>> THEN "a"
  ELSE LET partEntry == Head(entries)
       IN IF ~partEntry.used THEN GptGetActiveSlot(Tail(entries))
          ELSE IF partEntry.name.suffix \notin {"_a", "_b"}
          THEN GptGetActiveSlot(Tail(entries))
          ELSE IF parseABFlags(partEntry.attributes).active
          THEN (IF partEntry.name.suffix = "_a" THEN "a" ELSE "b")
          ELSE GptGetActiveSlot(Tail(entries))

\* GPT.setActiveSlot, lines 273-279: what it makes of one entry
SetSlotEntry(partEntry, slot) ==
  IF ~partEntry.used THEN partEntry
  ELSE IF partEntry.name.suffix \notin {"_a", "_b"} THEN partEntry
  ELSE LET bootable == partEntry.name.base = "boot"
       IN [partEntry EXCEPT !.attributes =
             updateABFlags(partEntry.attributes,
                           partEntry.name.suffix = "_" \o slot,
                           bootable, ~bootable, 0)]

SlotInit ==
  /\ partEntries \in EntryLists
  /\ lastSet = "none"
  /\ gotSlot = "none"
  /\ spc = "parsed"

\* GPT.setActiveSlot(slot), lines 271-280
GptSetActiveSlot ==
  /\ spc = "parsed"
  /\ \E slot \in {"a", "b", "c"} :
       IF slot # "a" /\ slot # "b"
       THEN /\ spc' = "thrown"
            /\ UNCHANGED <<partEntries, lastSet, gotSlot>>
       ELSE /\ partEntries' = [i \in 1..Len(partEntries) |->
                                 SetSlotEntry(partEntries[i], slot)]
            /\ lastSet' = slot
            /\ gotSlot' = "none"
            /\ UNCHANGED spc
  /\ UNCHANGED notSlot

\* a call of GPT.getActiveSlot()
GptCallGetActiveSlot ==
  /\ spc = "parsed"
  /\ gotSlot' = GptGetActiveSlot(partEntries)
  /\ UNCHANGED <<partEntries, lastSet, spc>>
  /\ UNCHANGED notSlot

SlotNext ==
  \/ GptSetActiveSlot
  \/ GptCallGetActiveSlot

InitSlot == SlotInit /\ ConnIdle /\ FlashIdle /\ InfoIdle /\ EraseIdle /\ SetSlotIdle /\ RepairIdle /\ SparseIdle /\ ProgramIdle /\ ReadBufferIdle /\ ConfigIdle /\ FlashBlobIdle /\ XmlIdle /\ ProbeIdle /\ HeaderIdle /\ WaitIdle /\ StreamIdle /\ PatchIdle /\ CheckIdle /\ LoggerIdle /\ TimeoutIdle

SpecSlot == InitSlot /\ [][SlotNext]_vars

(***************************************************************************)
(* gpt.ensureGptHdrConsistency and qdlDevice.setActiveSlot                 *)
(***************************************************************************)
\* crc32 of a partition table, tables being told apart by a number
TableCrc(table) == 100 + table

\* one copy of a GPT as read: whether the stored header CRC matches the
\* header, the stored crc32PartEntries, and the table that was read
GptCopy(hdrOk, partCrc, table) ==
  [hdrOk |-> hdrOk, partCrc |-> partCrc, table |-> table]

GptCopies ==
  {GptCopy(TRUE, TableCrc(1), 1), GptCopy(TRUE, TableCrc(2), 2),
   GptCopy(FALSE, TableCrc(1), 1)}

\* checkHeaderCrc, lines 233-246
checkHeaderCrc(copy) ==
  [corrupted |-> (~copy.hdrOk) \/ (copy.partCrc # TableCrc(copy.table)),
   partTableCrc |-> copy.partCrc]

\* ensureGptHdrConsistency, lines 256-271: whether it throws, and the table
\* of the GPT data it returns
ensureGptHdrConsistency(prim, back) ==
  LET primCorrupted == checkHeaderCrc(prim).corrupted
      backupCorrupted == checkHeaderCrc(back).corrupted
      headerConsistency ==
        checkHeaderCrc(prim).partTableCrc = checkHeaderCrc(back).partTableCrc
  IN IF primCorrupted \/ ~headerConsistency
     THEN IF backupCorrupted
          THEN [throws |-> TRUE, table |-> prim.table]
          ELSE [throws |-> FALSE, table |-> back.table]
     ELSE [throws |-> FALSE, table |-> prim.table]

\* a LUN: the names of its partentries in table order, whether its GPT
\* header parses, its two GPT copies, and header.backupLba
Lun(names, readable, prim, back) ==
  [names |-> names, readable |-> readable, prim |-> prim, back |-> back,
   backupLba |-> 9]

LunNames ==
  {<<Name("persist", "")>>,
   <<Name("boot", "_a"), Name("boot", "_b")>>,
   <<Name("system", "_a")>>,
   <<Name("system", "_b")>>,
   <<Name("xbl", "_a"), Name("xbl", "_b"), Name("system", "_a")>>}

Luns ==
  {Lun(n, TRUE, pr, b) : n \in LunNames, pr \in GptCopies, b \in GptCopies}
    \cup {Lun(n, FALSE, GptCopy(FALSE, 0, 0), GptCopy(FALSE, 0, 0)) :
            n \in LunNames}

Devices == UNION {[1..n -> Luns] : n \in 1..MaxLuns}

DevCmd(op, lun, arg) == [op |-> op, lun |-> lun, arg |-> arg]

HasName(lun, name) ==
  \E i \in 1..Len(luns[lun].names) : luns[lun].names[i] = name

\* getGpt(lun, startSector), lines 67-80: the cmdReadBuffer calls it makes;
\* the third is made only when the header parses
GetGptCmds(lun, startSector) ==
  IF luns[lun].readable
  THEN <<DevCmd("cmdReadBuffer", lun, 0),
         DevCmd("cmdReadBuffer", lun, startSector),
         DevCmd("cmdReadBuffer", lun,
                IF startSector = 1 THEN 2 ELSE startSector - 1)>>
  ELSE <<DevCmd("cmdReadBuffer", lun, 0),
         DevCmd("cmdReadBuffer", lun, startSector)>>

\* detectPartition(partitionName, true), lines 200-213, from LUN lun on:
\* the commands issued, the LUN found (0 for none), whether getGpt threw
RECURSIVE DetectPartition(_, _)
DetectPartition(name, lun) ==
  IF lun > Len(luns) THEN [cmds |-> <<>>, lun |-> 0, thrown |-> FALSE]
  ELSE IF ~luns[lun].readable
  THEN [cmds |-> GetGptCmds(lun, 1), lun |-> 0, thrown |-> TRUE]
  ELSE IF HasName(lun, name)
  THEN [cmds |-> GetGptCmds(lun, 1), lun |-> lun, thrown |-> FALSE]
  ELSE LET rest == DetectPartition(name, lun + 1)
       IN [rest EXCEPT !.cmds = GetGptCmds(lun, 1) \o rest.cmds]

\* the locals of one turn of the loop over firehose.luns
LunLocals ==
  [checkGptHeader |-> FALSE, sameLun |-> FALSE, hasPartitionA |-> FALSE,
   lunB |-> 0, cmds |-> <<>>, recon |-> <<>>, thrown |-> FALSE]

Reconciled(lun, r) ==
  [lun |-> lun, prim |-> luns[lun].prim, back |-> luns[lun].back,
   throws |-> r.throws, table |-> r.table]

\* setActiveSlot, lines 352-375: the partner of the first _a partitions
FindPartner(lunA, nameB, st) ==
  IF st.checkGptHeader THEN st
  ELSE IF HasName(lunA, nameB)
  THEN [st EXCEPT !.hasPartitionA = TRUE, !.lunB = lunA, !.sameLun = TRUE]
  ELSE LET d == DetectPartition(nameB, 1)
       IN IF d.thrown \/ d.lun = 0
          THEN [st EXCEPT !.hasPartitionA = TRUE,
                          !.cmds = st.cmds \o d.cmds, !.thrown = TRUE]
          ELSE [st EXCEPT !.hasPartitionA = TRUE, !.lunB = d.lun,
                          !.cmds = st.cmds \o d.cmds
                                     \o GetGptCmds(d.lun,
                                                   luns[d.lun].backupLba)]

\* setActiveSlot, lines 377-383: the two headers are reconciled once, at
\* the first _a partition that is not an xbl partition
CheckHeaders(lunA, nameA, st) ==
  IF st.thrown \/ st.checkGptHeader \/ nameA.base = "xbl" THEN st
  ELSE LET ra == ensureGptHdrConsistency(luns[lunA].prim, luns[lunA].back)
           rb == ensureGptHdrConsistency(luns[st.lunB].prim,
                                         luns[st.lunB].back)
       IN IF ra.throws
          THEN [st EXCEPT !.recon = st.recon \o <<Reconciled(lunA, ra)>>,
                          !.thrown = TRUE]
          ELSE IF st.sameLun
          THEN [st EXCEPT !.recon = st.recon \o <<Reconciled(lunA, ra)>>,
                          !.checkGptHeader = TRUE]
          ELSE [st EXCEPT !.recon = st.recon \o <<Reconciled(lunA, ra),
                                                   Reconciled(st.lunB, rb)>>,
                          !.thrown = rb.throws,
                          !.checkGptHeader = ~rb.throws]

\* setActiveSlot, lines 385-401: the entries are patched; partB is
\* undefined when the partner is not on lunB, and reading it throws
PatchEntries(nameB, st) ==
  IF st.thrown THEN st
  ELSE IF ~HasName(st.lunB, nameB) THEN [st EXCEPT !.thrown = TRUE]
  ELSE st

\* setActiveSlot, lines 348-402: the loop over the partentries of lunA
RECURSIVE PartitionLoop(_, _, _)
PartitionLoop(lunA, names, st) ==
  IF names = <<>> \/ st.thrown THEN st
  ELSE LET nameA == Head(names)
           nameB == Name(nameA.base, "_b")
       IN IF nameA.suffix # "_a" THEN PartitionLoop(lunA, Tail(names), st)
          ELSE PartitionLoop(lunA, Tail(names),
                 PatchEntries(nameB,
                   CheckHeaders(lunA, nameA, FindPartner(lunA, nameB, st))))

\* setActiveSlot, lines 338-412: one turn of the loop over firehose.luns
LunTurn(lunA) ==
  IF ~luns[lunA].readable
  THEN [LunLocals EXCEPT !.cmds = GetGptCmds(lunA, 1), !.thrown = TRUE]
  ELSE LET st0 == [LunLocals EXCEPT
                     !.cmds = GetGptCmds(lunA, 1)
                                \o GetGptCmds(lunA, luns[lunA].backupLba)]
           st == PartitionLoop(lunA, luns[lunA].names, st0)
       IN IF st.thrown \/ ~st.hasPartitionA THEN st
          ELSE [st EXCEPT !.cmds =
                  st.cmds \o <<DevCmd("cmdProgram", lunA, 1)>>
                    \o (IF st.sameLun THEN <<>>
                        ELSE <<DevCmd("cmdProgram", st.lunB, 1)>>)]

SetSlotInit ==
  /\ slotArg \in {"a", "b", "c"}
  /\ luns \in Devices
  /\ lunIdx = 0
  /\ devCmds = <<>>
  /\ reconciled = <<>>
  /\ gptWriteFailed = FALSE
  /\ sspc = "start"

\* setActiveSlot, lines 334-336
SetSlotCheck ==
  /\ sspc = "start"
  /\ IF slotArg # "a" /\ slotArg # "b"
     THEN sspc' = "thrown" /\ UNCHANGED lunIdx
     ELSE sspc' = "luns" /\ lunIdx' = 1
  /\ UNCHANGED <<slotArg, luns, devCmds, reconciled, gptWriteFailed>>
  /\ UNCHANGED notSetSlot

\* the cmdProgram calls among the commands of a turn
ProgramCalls(cmds) == {i \in 1..Len(cmds) : cmds[i].op = "cmdProgram"}

\* setActiveSlot, lines 338-412: the turn for the next LUN; each cmdProgram
\* returns true or false (firehose.js, lines 252-265) and the value is
\* dropped (lines 408, 411)
SetSlotLun ==
  /\ sspc = "luns"
  /\ LET st == LunTurn(lunIdx)
     IN /\ devCmds' = devCmds \o st.cmds
        /\ reconciled' = reconciled \o st.recon
        /\ \E rets \in [ProgramCalls(st.cmds) -> BOOLEAN] :
             gptWriteFailed' =
               (gptWriteFailed \/ \E i \in ProgramCalls(st.cmds) : ~rets[i])
        /\ IF st.thrown
           THEN sspc' = "thrown" /\ UNCHANGED lunIdx
           ELSE IF lunIdx = Len(luns)
           THEN sspc' = "bootlun" /\ UNCHANGED lunIdx
           ELSE lunIdx' = lunIdx + 1 /\ UNCHANGED sspc
  /\ UNCHANGED <<slotArg, luns>>
  /\ UNCHANGED notSetSlot

\* the boot LUN ids the other way round
ActiveBootLunIdSwapped(slot) == IF slot = "a" THEN 2 ELSE 1

\* setActiveSlot, line 414
ActiveBootLunId(slot) == IF slot = "a" THEN 1 ELSE 2

\* setActiveSlot, lines 414-417, with cmdSetBootLunId (firehose.js 308-317)
SetSlotBootLun ==
  /\ sspc = "bootlun"
  /\ devCmds' = Append(devCmds, DevCmd("cmdSetBootLunId", 0,
                                       ActiveBootLunId(slotArg)))
  /\ \E ans \in RequestAnswers :
       sspc' = IF XmlSendResp(ans) THEN "returned" ELSE "thrown"
  /\ UNCHANGED <<slotArg, luns, lunIdx, reconciled, gptWriteFailed>>
  /\ UNCHANGED notSetSlot

SetSlotNext ==
  \/ SetSlotCheck
  \/ SetSlotLun
  \/ SetSlotBootLun

InitSetSlot == SetSlotInit /\ ConnIdle /\ FlashIdle /\ InfoIdle /\ EraseIdle /\ SlotIdle /\ RepairIdle /\ SparseIdle /\ ProgramIdle /\ ReadBufferIdle /\ ConfigIdle /\ FlashBlobIdle /\ XmlIdle /\ ProbeIdle /\ HeaderIdle /\ WaitIdle /\ StreamIdle /\ PatchIdle /\ CheckIdle /\ LoggerIdle /\ TimeoutIdle

SpecSetSlot == InitSetSlot /\ [][SetSlotNext]_vars

(***************************************************************************)
(* qdlDevice.repairGpt (src/unnamed/part_008 lines 87-113) with getGpt     *)
(* (lines 67-80), createBackupGptHeader (src/src/gpt.js lines 279-306)     *)
(* and GPT.asAlternate (src/unnamed/part_006 lines 177-187).               *)
(* A GPT is its header fields and its partition entry array; crc32 is     *)
(* kept symbolic, two arrays having the same CRC exactly when they are     *)
(* equal.                                                                 *)
(***************************************************************************)
\* the GPTHeader struct, gpt.js lines 37-52 (alternateLba, partEntriesStartLba
\* and partEntriesCrc32 in part_006 are backupLba, partEntryStartLba and
\* crc32PartEntries here)
GPTHeader(currentLba, backupLba, partEntryStartLba, numPartEntries, partEntrySize, crc32PartEntries) ==
  [currentLba |-> currentLba, backupLba |-> backupLba,
   partEntryStartLba |-> partEntryStartLba,
   numPartEntries |-> numPartEntries, partEntrySize |-> partEntrySize,
   crc32PartEntries |-> crc32PartEntries]

\* a partition entry array of n entries
PartTable(n, k) == [i \in 1..n |-> (i * k) % 5]

\* crc32 of an entry array
crc32(data) == <<"crc32", data>>

\* the primary GPTs a device may hold after fixgpt: a table of 24, 32 or 40
\* entries of 128 bytes (less than one, exactly one, more than one sector),
\* the stored crc32PartEntries right or stale, or no parsable header
RepairDisks ==
  {[readable |-> TRUE,
    header |-> GPTHeader(1, bl, 2, n, 128, crc32(PartTable(n, c))),
    entries |-> PartTable(n, k)] :
      bl \in {9, 70}, n \in {24, 32, 40}, k \in {1, 2}, c \in {1, 2}}
    \cup {[readable |-> FALSE, header |-> GPTHeader(0, 0, 0, 0, 0, crc32(<<>>)),
           entries |-> <<>>]}

\* getGpt, lines 75-77: the part of the entry array that is read
ReadPartTable(disk) ==
  LET partTableSize == disk.header.numPartEntries * disk.header.partEntrySize
      sectors == partTableSize \div SECTOR_SIZE_IN_BYTES
      read == (sectors * SECTOR_SIZE_IN_BYTES) \div disk.header.partEntrySize
  IN SubSeq(disk.entries, 1, MathMin(read, Len(disk.entries)))

\* getGpt, lines 67-80: the three cmdReadBuffer calls; the third is made
\* only when the header parses
RepairGetGptCmds(lun, disk) ==
  IF disk.readable
  THEN <<DevCmd("cmdReadBuffer", lun, 0), DevCmd("cmdReadBuffer", lun, 1),
         DevCmd("cmdReadBuffer", lun, disk.header.partEntryStartLba)>>
  ELSE <<DevCmd("cmdReadBuffer", lun, 0), DevCmd("cmdReadBuffer", lun, 1)>>

\* getGpt, line 79: the parsed GPT and the bytes read
GptRead(disk) ==
  [header |-> disk.header, entries |-> ReadPartTable(disk),
   data |-> [header |-> disk.header, table |-> ReadPartTable(disk)]]

\* the sectors of the entry array, rounded down
partEntriesSectorsFloor(header) ==
  (header.numPartEntries * header.partEntrySize) \div SECTOR_SIZE_IN_BYTES

\* GPT.partEntriesSectors, part_006 lines 117-119, and partTableSectors,
\* gpt.js line 287
partEntriesSectors(header) ==
  CeilDiv(header.numPartEntries * header.partEntrySize, SECTOR_SIZE_IN_BYTES)

\* createBackupGptHeader, gpt.js lines 279-306
createBackupGptHeader(primaryGptData, primaryGpt) ==
  LET partTableSize ==
        primaryGpt.header.numPartEntries * primaryGpt.header.partEntrySize
      partTableData ==
        SubSeq(primaryGptData.table, 1,
               MathMin(primaryGpt.header.numPartEntries,
                       Len(primaryGptData.table)))
      backupPartTableLba ==
        primaryGpt.header.backupLba - partEntriesSectors(primaryGpt.header)
  IN [backupHeader |->
        [primaryGptData.header EXCEPT
           !.currentLba = primaryGpt.header.backupLba,
           !.backupLba = primaryGpt.header.currentLba,
           !.partEntryStartLba = backupPartTableLba,
           !.crc32PartEntries = crc32(partTableData)],
      backupLba |-> primaryGpt.header.backupLba,
      partTableData |-> partTableData,
      backupPartTableLba |-> backupPartTableLba]

\* GPT.asAlternate, part_006 lines 177-187
asAlternate(gpt) ==
  [header |-> [gpt.header EXCEPT
                 !.currentLba = gpt.header.backupLba,
                 !.backupLba = gpt.header.currentLba,
                 !.partEntryStartLba =
                    gpt.header.backupLba - partEntriesSectors(gpt.header)],
   entries |-> gpt.entries]

\* cmdProgram, firehose.js lines 195-265: its result for the answer to the
\* <program> request and the answer after the payload
CmdProgramResult(req, fin) ==
  IF ~XmlSendResp(req) THEN TRUE ELSE fin.value = "ACK"

\* one command of repairGpt: the command, whether the device acknowledged
\* it, and what the call returned
RepairCmd(cmd, acked, result) ==
  [cmd |-> cmd, acked |-> acked, result |-> result]

\* a cmdProgram call of repairGpt with the device's answers a
RepairProgram(sector, a) ==
  RepairCmd(DevCmd("cmdProgram", repLun, sector),
            a[1].value = "ACK" /\ a[2].value = "ACK",
            CmdProgramResult(a[1], a[2]))

RepairInit ==
  /\ repLun \in {0, 1}
  /\ repDisk \in RepairDisks
  /\ repCmds = <<>>
  /\ repPrimary = NoDerived
  /\ repBackup = NoDerived
  /\ repAlt = NoDerived
  /\ rpc = "start"

\* repairGpt, lines 90-92
RepairWritePrimary ==
  /\ rpc = "start"
  /\ \E a \in EraseAnswers :
       /\ repCmds' = Append(repCmds, RepairProgram(0, a))
       /\ rpc' = IF CmdProgramResult(a[1], a[2]) THEN "fixgpt" ELSE "thrown"
  /\ UNCHANGED <<repLun, repDisk, repPrimary, repBackup, repAlt>>
  /\ UNCHANGED notRepair

\* Firehose.cmdFixGpt(lun, growLastPartition): the command
\* <fixgpt physical_partition_number=lun GrowLastPartition=grow/>
cmdFixGpt(lun, growLastPartition) == DevCmd("cmdFixGpt", lun, growLastPartition)

\* repairGpt, line 95; the result of cmdFixGpt is not used
RepairFixGpt ==
  /\ rpc = "fixgpt"
  /\ repCmds' = Append(repCmds, RepairCmd(cmdFixGpt(repLun, 1), TRUE, TRUE))
  /\ rpc' = "getGpt"
  /\ UNCHANGED <<repLun, repDisk, repPrimary, repBackup, repAlt>>
  /\ UNCHANGED notRepair

\* repairGpt, lines 98-99: getGpt throws when the header does not parse;
\* parsePartTable over an entry array that was read short either throws or
\* goes on, as the struct library decides
RepairReadBack ==
  /\ rpc = "getGpt"
  /\ repCmds' = repCmds \o [i \in 1..Len(RepairGetGptCmds(repLun, repDisk)) |->
                              RepairCmd(RepairGetGptCmds(repLun, repDisk)[i],
                                        TRUE, TRUE)]
  /\ \E parsed \in BOOLEAN :
       IF ~repDisk.readable
          \/ (~parsed /\ Len(ReadPartTable(repDisk)) < Len(repDisk.entries))
       THEN /\ rpc' = "thrown"
            /\ UNCHANGED <<repPrimary, repBackup>>
       ELSE /\ repPrimary' = GptRead(repDisk)
            /\ repBackup' = createBackupGptHeader(GptRead(repDisk).data,
                                                  GptRead(repDisk))
            /\ rpc' = "table"
  /\ UNCHANGED <<repLun, repDisk, repAlt>>
  /\ UNCHANGED notRepair

\* repairGpt, lines 101-104
RepairWriteTable ==
  /\ rpc = "table"
  /\ \E a \in EraseAnswers :
       /\ repCmds' = Append(repCmds,
                            RepairProgram(repBackup.backupPartTableLba, a))
       /\ rpc' = IF CmdProgramResult(a[1], a[2]) THEN "header" ELSE "thrown"
  /\ UNCHANGED <<repLun, repDisk, repPrimary, repBackup, repAlt>>
  /\ UNCHANGED notRepair

\* repairGpt, lines 106-112
RepairWriteHeader ==
  /\ rpc = "header"
  /\ \E a \in EraseAnswers :
       /\ repCmds' = Append(repCmds, RepairProgram(repBackup.backupLba, a))
       /\ rpc' = IF CmdProgramResult(a[1], a[2]) THEN "returned" ELSE "thrown"
  /\ UNCHANGED <<repLun, repDisk, repPrimary, repBackup, repAlt>>
  /\ UNCHANGED notRepair

\* a call of asAlternate() on the parsed primary GPT
GptAsAlternate ==
  /\ repPrimary # NoDerived
  /\ repAlt = NoDerived
  /\ repAlt' = asAlternate(repPrimary)
  /\ UNCHANGED <<repLun, repDisk, repCmds, repPrimary, repBackup, rpc>>
  /\ UNCHANGED notRepair

RepairNext ==
  \/ RepairWritePrimary
  \/ RepairFixGpt
  \/ RepairReadBack
  \/ RepairWriteTable
  \/ RepairWriteHeader
  \/ GptAsAlternate

InitRepair == RepairInit /\ ConnIdle /\ FlashIdle /\ InfoIdle /\ EraseIdle /\ SlotIdle /\ SetSlotIdle /\ SparseIdle /\ ProgramIdle /\ ReadBufferIdle /\ ConfigIdle /\ FlashBlobIdle /\ XmlIdle /\ ProbeIdle /\ HeaderIdle /\ WaitIdle /\ StreamIdle /\ PatchIdle /\ CheckIdle /\ LoggerIdle /\ TimeoutIdle

SpecRepair == InitRepair /\ [][RepairNext]_vars

(***************************************************************************)
(* The sparse readers, byte by byte: Sparse.chunks and Sparse.read         *)
(* (src/unnamed/part_014 lines 72-118) and splitBlob with populate         *)
(* (src/src/sparse.js lines 175-316).  A blob is a sequence of bytes.      *)
(***************************************************************************)
\* one chunk of a sparse file: the header fields and the data that follows
SparseChunk(type, blocks, data) ==
  [type |-> type, blocks |-> blocks, data |-> data,
   dataBytes |-> Len(data), totalBytes |-> CHUNK_HEADER_SIZE + Len(data)]

Zeros(n) == [i \in 1..n |-> 0]

\* the pattern written once, whatever n
TileOnce(pattern, n) == pattern

\* a 4-byte pattern laid over n bytes
Tile(pattern, n) == [i \in 1..n |-> pattern[((i - 1) % Len(pattern)) + 1]]

RECURSIVE SumBlocks(_)
SumBlocks(chunks) ==
  IF chunks = <<>> THEN 0 ELSE Head(chunks).blocks + SumBlocks(Tail(chunks))

RECURSIVE SumChunkBytes(_)
SumChunkBytes(chunks) ==
  IF chunks = <<>> THEN 0
  ELSE Head(chunks).totalBytes + SumChunkBytes(Tail(chunks))

\* the chunks a valid sparse file of block size bs may hold
ValidChunks(bs) ==
  {SparseChunk("Raw", 1, [i \in 1..bs |-> 10 + i]),
   SparseChunk("Raw", 2, [i \in 1..2 * bs |-> 30 + i]),
   SparseChunk("Fill", 1, <<1, 2, 3, 4>>),
   SparseChunk("Fill", 3, <<5, 6, 7, 8>>),
   SparseChunk("Fill", 1, <<0, 0, 0, 0>>),
   SparseChunk("Skip", 2, <<>>),
   SparseChunk("Crc32", 0, <<9, 9, 9, 9>>)}

\* a valid sparse file: totalBlocks is the sum of the chunks' blocks and the
\* blob ends with the last chunk
SparseFile(bs, chunks) ==
  [blockSize |-> bs, totalBlocks |-> SumBlocks(chunks),
   totalChunks |-> Len(chunks), chunks |-> chunks,
   size |-> FILE_HEADER_SIZE + SumChunkBytes(chunks)]

SparseFiles ==
  UNION {{SparseFile(bs, cs) :
            cs \in UNION {[1..n -> ValidChunks(bs)] :
                            n \in 1..MaxSparseChunks}} :
           bs \in {4, 8}}

\* the same file in a blob that is d bytes longer (shorter when d < 0)
Resized(file, d) == [file EXCEPT !.size = file.size + d]

\* the blobs handed to the readers built on chunks(): the valid files, and
\* the same files cut short or followed by trailing bytes
SparseBlobs ==
  SparseFiles \cup {Resized(f, d) : f \in SparseFiles, d \in {0 - 4, 4}}

\* BlobBuilder.append: the bytes are added to the buffer and every full
\* maxSize bytes are yielded as one piece
RECURSIVE BuilderAppend(_, _, _)
BuilderAppend(buf, out, maxSize) ==
  IF Len(buf) < maxSize THEN [buf |-> buf, out |-> out]
  ELSE BuilderAppend(SubSeq(buf, maxSize + 1, Len(buf)),
                     Append(out, SubSeq(buf, 1, maxSize)), maxSize)

\* Sparse.read, lines 106-115: the bytes one chunk adds to the builder
ReadChunkBytes(chunk, blockSize) ==
  IF chunk.type = "Raw" THEN chunk.data
  ELSE IF chunk.type = "Fill" THEN Tile(chunk.data, chunk.blocks * blockSize)
  ELSE IF chunk.type = "Skip" THEN Zeros(chunk.blocks * blockSize)
  ELSE <<>>

\* a JavaScript number, NaN included
JsNum(n) == [nan |-> FALSE, v |-> n]

\* undefined, which arithmetic turns into NaN
JsUndefined == [nan |-> TRUE, v |-> 0]

JsAdd(a, b) == [nan |-> a.nan \/ b.nan, v |-> a.v + b.v]

JsSub(a, b) == [nan |-> a.nan \/ b.nan, v |-> a.v - b.v]

JsMul(a, b) == [nan |-> a.nan \/ b.nan, v |-> a.v * b.v]

\* a >= b, false when either is NaN
JsGe(a, b) == (~a.nan) /\ (~b.nan) /\ a.v >= b.v

\* calcChunksRealDataBytes, sparse.js lines 217-230
calcChunksRealDataBytes(chunk, blockSize) ==
  IF chunk.type = "Raw" THEN JsNum(chunk.dataBytes)
  ELSE IF chunk.type \in {"Fill", "Skip"}
  THEN JsMul(JsNum(chunk.blocks), blockSize)
  ELSE JsNum(0)

\* calcChunksSize, sparse.js lines 238-240
RECURSIVE calcChunksSize(_, _)
calcChunksSize(chunks, blockSize) ==
  IF chunks = <<>> THEN JsNum(0)
  ELSE JsAdd(calcChunksRealDataBytes(Head(chunks), blockSize),
             calcChunksSize(Tail(chunks), blockSize))

\* splitBlob, lines 275-294 for a Raw chunk: pieces of at most safeToSend
RECURSIVE RawPieces(_, _, _)
RawPieces(data, blockSize, safeToSend) ==
  IF Len(data) = 0 THEN <<>>
  ELSE LET toSend == MathMin(safeToSend, Len(data))
       IN <<SparseChunk("Raw", toSend \div blockSize, SubSeq(data, 1, toSend))>>
            \o RawPieces(SubSeq(data, toSend + 1, Len(data)), blockSize,
                         safeToSend)

\* splitBlob, lines 277-287 for a Fill or Skip chunk
RECURSIVE HolePieces(_, _, _, _, _)
HolePieces(type, data, realBytesToWrite, blockSize, safeToSend) ==
  IF realBytesToWrite <= 0 THEN <<>>
  ELSE LET realSend == MathMin(safeToSend, realBytesToWrite)
       IN <<SparseChunk(type, realSend \div blockSize, data)>>
            \o HolePieces(type, data, realBytesToWrite - realSend, blockSize,
                          safeToSend)

\* splitBlob, lines 265-301: chunksToProcess for one chunk of the file
ChunksToProcess(chunk, blockSize, safeToSend) ==
  LET realBytesToWrite == calcChunksRealDataBytes(chunk, JsNum(blockSize)).v
  IN IF realBytesToWrite > safeToSend
     THEN IF chunk.type = "Raw"
          THEN RawPieces(chunk.data, blockSize, safeToSend)
          ELSE HolePieces(chunk.type,
                          IF chunk.type = "Skip" THEN <<>>
                          ELSE SubSeq(chunk.data, 1,
                                      MathMin(safeToSend, chunk.dataBytes)),
                          realBytesToWrite, blockSize, safeToSend)
     ELSE <<chunk>>

\* populate, sparse.js lines 180-206: what the chunks write into ret
RECURSIVE PopulateBytes(_, _)
PopulateBytes(chunks, blockSize) ==
  IF chunks = <<>> THEN <<>>
  ELSE LET c == Head(chunks)
           bytes ==
             IF c.type = "Raw"
             THEN c.data \o Zeros(c.blocks * blockSize - Len(c.data))
             ELSE IF c.type = "Fill" THEN Tile(c.data, c.blocks * blockSize)
             ELSE IF c.type = "Skip" THEN Zeros(c.blocks * blockSize)
             ELSE <<>>
       IN bytes \o PopulateBytes(Tail(chunks), blockSize)

\* populate, sparse.js lines 175-209: ret has blockCount * blockSize bytes
populate(chunks, blockSize) ==
  LET written == PopulateBytes(chunks, blockSize)
  IN written \o Zeros(SumBlocks(chunks) * blockSize - Len(written))

\* splitBlob, lines 302-311: the chunks to process are added to
\* splitChunks, which is yielded when the next chunk does not fit;
\* calcChunksSize is called without its blockSize argument
RECURSIVE SplitProcess(_, _, _, _, _)
SplitProcess(todo, splitChunks, out, blockSize, splitSize) ==
  IF todo = <<>> THEN [buf |-> splitChunks, out |-> out]
  ELSE LET chunk == Head(todo)
           remaining ==
             JsSub(JsNum(splitSize), calcChunksSize(splitChunks, JsUndefined))
           realChunkBytes == calcChunksRealDataBytes(chunk, JsNum(blockSize))
       IN IF JsGe(remaining, realChunkBytes)
          THEN SplitProcess(Tail(todo), Append(splitChunks, chunk), out,
                            blockSize, splitSize)
          ELSE SplitProcess(Tail(todo), <<chunk>>,
                            Append(out, populate(splitChunks, blockSize)),
                            blockSize, splitSize)

\* a sparse file and a piece size; splitBlob is given a valid file and a
\* whole number of blocks, read is also given sizes it refuses; the read
\* that yields records takes no size
SparseInit ==
  /\ spReader \in {"read", "splitBlob", "records"}
  /\ spImage \in SparseBlobs
  /\ spMaxSize \in {4, 8, 16}
  /\ spReader = "splitBlob" =>
       (spMaxSize % spImage.blockSize = 0 /\ spImage \in SparseFiles)
  /\ spReader = "records" => spMaxSize = 4
  /\ spIdx = 1
  /\ spOffset = FILE_HEADER_SIZE
  /\ spBuf = <<>>
  /\ spOut = <<>>
  /\ spYielded = <<>>
  /\ sppc = "start"

\* Sparse.read, lines 101-104
SparseReadStart ==
  /\ spReader = "read"
  /\ sppc = "start"
  /\ sppc' = IF spMaxSize % spImage.blockSize # 0 THEN "thrown" ELSE "chunks"
  /\ UNCHANGED <<spReader, spImage, spMaxSize, spIdx, spOffset, spBuf, spOut,
                 spYielded>>
  /\ UNCHANGED notSparse

\* chunks(), line 75: the test made before a chunk header is read
HeaderOutOfBounds(blobOffset, size) == blobOffset + CHUNK_HEADER_SIZE >= size

\* chunks(), lines 75-83: whether the turn for the chunk at blobOffset throws
ChunksThrows(blobOffset, chunk, size) ==
  \/ HeaderOutOfBounds(blobOffset, size)
  \/ blobOffset + chunk.totalBytes > size

\* one turn of chunks(), lines 74-90, and of the loop of read, lines 105-116
SparseReadChunk ==
  /\ spReader = "read"
  /\ sppc = "chunks"
  /\ spIdx <= spImage.totalChunks
  /\ IF ChunksThrows(spOffset, spImage.chunks[spIdx], spImage.size)
     THEN /\ sppc' = "thrown"
          /\ UNCHANGED <<spIdx, spOffset, spBuf, spOut, spYielded>>
     ELSE LET b == BuilderAppend(
                     spBuf \o ReadChunkBytes(spImage.chunks[spIdx],
                                             spImage.blockSize),
                     spOut, spMaxSize)
          IN /\ spBuf' = b.buf
             /\ spOut' = b.out
             /\ spYielded' = Append(spYielded, spIdx)
             /\ spIdx' = spIdx + 1
             /\ spOffset' = spOffset + spImage.chunks[spIdx].totalBytes
             /\ UNCHANGED sppc
  /\ UNCHANGED <<spReader, spImage, spMaxSize>>
  /\ UNCHANGED notSparse

\* Sparse.read() yielding records: what one chunk at byte offset `offset`
\* of the expanded image yields (nothing for Crc32)
SparseReadRecord(chunk, blockSize, offset) ==
  LET size == chunk.blocks * blockSize
      Record(data, hole) ==
        <<[offset |-> offset, chunk |-> data, hole |-> hole, size |-> size]>>
  IN IF chunk.type = "Raw" THEN Record(chunk.data, FALSE)
     ELSE IF chunk.type = "Fill"
     THEN IF chunk.data = Zeros(Len(chunk.data)) THEN Record(<<>>, TRUE)
          ELSE Record(Tile(chunk.data, size), FALSE)
     ELSE IF chunk.type = "Skip" THEN Record(<<>>, TRUE)
     ELSE <<>>

\* the loop of the read that yields records: one turn of chunks(), lines
\* 74-90, and the record for the chunk; spBuf holds the offset reached
SparseRecordsChunk ==
  /\ spReader = "records"
  /\ sppc \in {"start", "chunks"}
  /\ spIdx <= spImage.totalChunks
  /\ IF ChunksThrows(spOffset, spImage.chunks[spIdx], spImage.size)
     THEN /\ sppc' = "thrown"
          /\ UNCHANGED <<spIdx, spOffset, spBuf, spOut, spYielded>>
     ELSE LET offset == IF spBuf = <<>> THEN 0 ELSE spBuf[1]
              chunk == spImage.chunks[spIdx]
          IN /\ spOut' = spOut \o SparseReadRecord(chunk, spImage.blockSize,
                                                    offset)
             /\ spBuf' = <<offset + chunk.blocks * spImage.blockSize>>
             /\ spYielded' = Append(spYielded, spIdx)
             /\ spIdx' = spIdx + 1
             /\ spOffset' = spOffset + chunk.totalBytes
             /\ sppc' = "chunks"
  /\ UNCHANGED <<spReader, spImage, spMaxSize>>
  /\ UNCHANGED notSparse

\* chunks(), lines 91-93, ends and so does the read
SparseRecordsEnd ==
  /\ spReader = "records"
  /\ sppc \in {"start", "chunks"}
  /\ spIdx > spImage.totalChunks
  /\ sppc' = "returned"
  /\ UNCHANGED <<spReader, spImage, spMaxSize, spIdx, spOffset, spBuf, spOut,
                 spYielded>>
  /\ UNCHANGED notSparse

\* Sparse.read, line 117: builder.flush() yields what is left
SparseReadFlush ==
  /\ spReader = "read"
  /\ sppc = "chunks"
  /\ spIdx > spImage.totalChunks
  /\ spOut' = IF spBuf = <<>> THEN spOut ELSE Append(spOut, spBuf)
  /\ spBuf' = <<>>
  /\ sppc' = "returned"
  /\ UNCHANGED <<spReader, spImage, spMaxSize, spIdx, spOffset, spYielded>>
  /\ UNCHANGED notSparse

\* splitBlob, lines 248-259: the file header parses
SplitBlobStart ==
  /\ spReader = "splitBlob"
  /\ sppc = "start"
  /\ sppc' = "chunks"
  /\ UNCHANGED <<spReader, spImage, spMaxSize, spIdx, spOffset, spBuf, spOut,
                 spYielded>>
  /\ UNCHANGED notSparse

\* splitBlob, lines 260-312: one chunk of the file
SplitBlobChunk ==
  /\ spReader = "splitBlob"
  /\ sppc = "chunks"
  /\ spIdx <= spImage.totalChunks
  /\ LET r == SplitProcess(ChunksToProcess(spImage.chunks[spIdx],
                                           spImage.blockSize, spMaxSize),
                           spBuf, spOut, spImage.blockSize, spMaxSize)
     IN /\ spBuf' = r.buf
        /\ spOut' = r.out
  /\ spIdx' = spIdx + 1
  /\ spOffset' = spOffset + spImage.chunks[spIdx].totalBytes
  /\ UNCHANGED <<spReader, spImage, spMaxSize, spYielded, sppc>>
  /\ UNCHANGED notSparse

\* splitBlob, lines 313-315
SplitBlobFinish ==
  /\ spReader = "splitBlob"
  /\ sppc = "chunks"
  /\ spIdx > spImage.totalChunks
  /\ spOut' = IF Len(spBuf) > 0
              THEN Append(spOut, populate(spBuf, spImage.blockSize))
              ELSE spOut
  /\ spBuf' = <<>>
  /\ sppc' = "returned"
  /\ UNCHANGED <<spReader, spImage, spMaxSize, spIdx, spOffset, spYielded>>
  /\ UNCHANGED notSparse

SparseNext ==
  \/ SparseReadStart
  \/ SparseReadChunk
  \/ SparseReadFlush
  \/ SparseRecordsChunk
  \/ SparseRecordsEnd
  \/ SplitBlobStart
  \/ SplitBlobChunk
  \/ SplitBlobFinish

InitSparse == SparseInit /\ ConnIdle /\ FlashIdle /\ InfoIdle /\ EraseIdle /\ SlotIdle /\ SetSlotIdle /\ RepairIdle /\ ProgramIdle /\ ReadBufferIdle /\ ConfigIdle /\ FlashBlobIdle /\ XmlIdle /\ ProbeIdle /\ HeaderIdle /\ WaitIdle /\ StreamIdle /\ PatchIdle /\ CheckIdle /\ LoggerIdle /\ TimeoutIdle

SpecSparse == InitSparse /\ [][SparseNext]_vars

(***************************************************************************)
(* Firehose.cmdProgram of a blob that is not a sparse image                *)
(***************************************************************************)
\* the sizes of the blobs that are programmed: around a sector and around
\* a full payload
BlobSizes ==
  UNION {{k * MaxPayloadSizeToTargetInBytes + d :
            d \in {0, 1, SECTOR_SIZE_IN_BYTES - 1, SECTOR_SIZE_IN_BYTES,
                   SECTOR_SIZE_IN_BYTES + 1,
                   MaxPayloadSizeToTargetInBytes - 1}} : k \in 0..MaxPayloads}

\* cmdProgram, lines 205-208
numPartitionSectors(total) ==
  (total \div SECTOR_SIZE_IN_BYTES) +
  (IF total % SECTOR_SIZE_IN_BYTES # 0 THEN 1 ELSE 0)

\* cmdProgram, line 225
Wlen(bytesToWriteSplit) ==
  IF bytesToWriteSplit < MaxPayloadSizeToTargetInBytes
  THEN bytesToWriteSplit ELSE MaxPayloadSizeToTargetInBytes

\* a plausible slip: the last write is not padded to a whole sector
WdataLenUnpadded(wlen) == wlen

\* cmdProgram, lines 226-232: the length of wdata
WdataLen(wlen) ==
  IF wlen % SECTOR_SIZE_IN_BYTES # 0
  THEN (wlen \div SECTOR_SIZE_IN_BYTES) * SECTOR_SIZE_IN_BYTES
       + SECTOR_SIZE_IN_BYTES
  ELSE wlen

ProgramInit ==
  /\ pgSize \in BlobSizes
  /\ pgSectors = 0
  /\ pgReq = <<>>
  /\ pgLeft = 0
  /\ pgOffset = 0
  /\ pgWrites = <<>>
  /\ pgResult = "none"
  /\ pgpc = "start"

\* cmdProgram, lines 196-221: the request is sent and answered; splitBlob
\* yields a blob without sparse header whole
ProgramRequest ==
  /\ pgpc = "start"
  /\ pgSectors' = numPartitionSectors(pgSize)
  /\ \E req \in RequestAnswers :
       /\ pgReq' = req
       /\ IF XmlSendResp(req)
          THEN /\ pgpc' = "write"
               /\ pgLeft' = pgSize
               /\ pgResult' = pgResult
          ELSE /\ pgpc' = "done"
               /\ pgLeft' = pgLeft
               /\ pgResult' = "true"
  /\ UNCHANGED <<pgSize, pgOffset, pgWrites>>
  /\ UNCHANGED notProgram

\* cmdProgram, lines 224-248: one turn of the write loop
ProgramWrite ==
  /\ pgpc = "write"
  /\ pgLeft > 0
  /\ LET wlen == Wlen(pgLeft) IN
       /\ pgWrites' = Append(pgWrites, [wlen |-> wlen, len |-> WdataLen(wlen)])
       /\ pgOffset' = pgOffset + wlen
       /\ pgLeft' = pgLeft - wlen
  /\ UNCHANGED <<pgSize, pgSectors, pgReq, pgResult, pgpc>>
  /\ UNCHANGED notProgram

\* cmdProgram, lines 251-264: the answer after the payload
ProgramWait ==
  /\ pgpc = "write"
  /\ pgLeft = 0
  /\ \E fin \in FinalAnswers \cup {NoResponse} :
       pgResult' = IF fin.value = "ACK" THEN "true" ELSE "false"
  /\ pgpc' = "done"
  /\ UNCHANGED <<pgSize, pgSectors, pgReq, pgLeft, pgOffset, pgWrites>>
  /\ UNCHANGED notProgram

ProgramNext == ProgramRequest \/ ProgramWrite \/ ProgramWait

InitProgram == ProgramInit /\ ConnIdle /\ FlashIdle /\ InfoIdle /\ EraseIdle /\ SlotIdle /\ SetSlotIdle /\ RepairIdle /\ SparseIdle /\ ReadBufferIdle /\ ConfigIdle /\ FlashBlobIdle /\ XmlIdle /\ ProbeIdle /\ HeaderIdle /\ WaitIdle /\ StreamIdle /\ PatchIdle /\ CheckIdle /\ LoggerIdle /\ TimeoutIdle
SpecProgram == InitProgram /\ [][ProgramNext]_vars

(***************************************************************************)
(* Firehose.cmdReadBuffer                                                  *)
(***************************************************************************)
\* the payload a device sends for a read of n sectors: all of it, all but
\* one transfer, one transfer, or none
DevicePayloads(n) ==
  {0, cdcMaxSize, SECTOR_SIZE_IN_BYTES * n - cdcMaxSize, SECTOR_SIZE_IN_BYTES * n}

ReadBufferInit ==
  /\ rbSectors \in 1..MaxReadSectors
  /\ rbReq = <<>>
  /\ rbDevice = 0
  /\ rbLeft = 0
  /\ rbResult = "none"
  /\ rbpc = "start"

\* cmdReadBuffer, lines 129-139: the request is sent and answered
ReadBufferRequest ==
  /\ rbpc = "start"
  /\ \E req \in RequestAnswers :
       /\ rbReq' = req
       /\ IF XmlSendResp(req)
          THEN /\ rbpc' = "payload"
               /\ rbLeft' = SECTOR_SIZE_IN_BYTES * rbSectors
               /\ rbResult' = rbResult
          ELSE /\ rbpc' = "done"
               /\ rbLeft' = rbLeft
               /\ rbResult' = "false"
  /\ rbDevice' \in DevicePayloads(rbSectors)
  /\ UNCHANGED rbSectors
  /\ UNCHANGED notReadBuffer

\* cmdReadBuffer, lines 140-141, and usbClass.read, lines 250-251 and 258:
\* a transfer is asked for while bytes are missing
ReadBufferTransferIn ==
  /\ rbpc = "payload"
  /\ rbLeft > 0
  /\ rbpc' = "transfer"
  /\ UNCHANGED <<rbSectors, rbReq, rbDevice, rbLeft, rbResult>>
  /\ UNCHANGED notReadBuffer

\* usbClass.read, lines 252-256, and cmdReadBuffer, lines 142-144: the
\* transfer returns what the device has, which is nothing once it has
\* stopped sending
ReadBufferTransferOut ==
  /\ rbpc = "transfer"
  /\ LET size == IF rbDevice < cdcMaxSize THEN rbDevice ELSE cdcMaxSize IN
       /\ rbDevice' = rbDevice - size
       /\ rbLeft' = rbLeft - size
  /\ rbpc' = "payload"
  /\ UNCHANGED <<rbSectors, rbReq, rbResult>>
  /\ UNCHANGED notReadBuffer

\* cmdReadBuffer, lines 147-164: the answer after the payload
ReadBufferWait ==
  /\ rbpc = "payload"
  /\ rbLeft <= 0
  /\ \E fin \in FinalAnswers \cup {NoResponse} :
       rbResult' = IF fin.value = "ACK" THEN "true" ELSE "false"
  /\ rbpc' = "done"
  /\ UNCHANGED <<rbSectors, rbReq, rbDevice, rbLeft>>
  /\ UNCHANGED notReadBuffer

ReadBufferNext ==
  \/ ReadBufferRequest
  \/ ReadBufferTransferIn
  \/ ReadBufferTransferOut
  \/ ReadBufferWait

InitReadBuffer == ReadBufferInit /\ ConnIdle /\ FlashIdle /\ InfoIdle /\ EraseIdle /\ SlotIdle /\ SetSlotIdle /\ RepairIdle /\ SparseIdle /\ ProgramIdle /\ ConfigIdle /\ FlashBlobIdle /\ XmlIdle /\ ProbeIdle /\ HeaderIdle /\ WaitIdle /\ StreamIdle /\ PatchIdle /\ CheckIdle /\ LoggerIdle /\ TimeoutIdle
\* every await of the host resolves: the host takes its next step
SpecReadBuffer == InitReadBuffer /\ [][ReadBufferNext]_vars /\ WF_vars(ReadBufferNext)

(***************************************************************************)
(* qdlDevice.flashBlob up to its first write command                       *)
(***************************************************************************)
\* spellings of the name gpt
GptNames == {"gpt", "GPT", "Gpt"}

\* partition names flashBlob is called with
FlashNames == GptNames \cup {"system"}

\* a plausible slip: the name is compared as given
ToLowerCaseSame(name) == name

\* String.prototype.toLowerCase on the names of the model
ToLowerCase(name) == IF name \in GptNames THEN "gpt" ELSE "system"

\* the table of a LUN: entries by name, or a header getGpt cannot parse
LunTables ==
  {[readable |-> FALSE, entries |-> {}]} \cup
  {[readable |-> TRUE, entries |-> {Partf(n, 6, 2) : n \in ns}] :
     ns \in {{}, {"gpt"}, {"GPT"}, {"system"}, {"gpt", "system"}}}

FlashBlobInit ==
  /\ fbName \in FlashNames
  /\ fbSize \in {100, 3 * SECTOR_SIZE_IN_BYTES}
  /\ fbSparse \in BOOLEAN
  /\ fbLuns \in [1..MaxLuns -> LunTables]
  /\ fbIdx = 0
  /\ fbPart = <<>>
  /\ fbCmds = <<>>
  /\ fbpc = "detect"

\* detectPartition, lines 198-207, for the next LUN: getGpt reads the table
\* (it throws on a header it cannot parse, line 72) and the name is looked
\* up as given
FlashBlobGetGpt ==
  /\ fbpc = "detect"
  /\ fbIdx < Len(fbLuns)
  /\ fbIdx' = fbIdx + 1
  /\ fbCmds' = Append(fbCmds, "cmdReadBuffer")
  /\ LET table == fbLuns[fbIdx + 1] IN
       IF ~table.readable
       THEN /\ fbpc' = "thrown"
            /\ UNCHANGED fbPart
       ELSE IF \E e \in table.entries : e.name = fbName
       THEN /\ fbpc' = "found"
            /\ fbPart' = CHOOSE e \in table.entries : e.name = fbName
       ELSE /\ fbpc' = "detect"
            /\ UNCHANGED fbPart
  /\ UNCHANGED <<fbName, fbSize, fbSparse, fbLuns>>
  /\ UNCHANGED notFlashBlob

\* detectPartition, line 208, and flashBlob, lines 223-225: no LUN holds the
\* name
FlashBlobNotFound ==
  /\ fbpc = "detect"
  /\ fbIdx = Len(fbLuns)
  /\ fbpc' = "thrown"
  /\ UNCHANGED <<fbName, fbSize, fbSparse, fbLuns, fbIdx, fbPart, fbCmds>>
  /\ UNCHANGED notFlashBlob

\* flashBlob, lines 226-245: the name check, the size check and the first
\* write command
FlashBlobCheck ==
  /\ fbpc = "found"
  /\ IF ToLowerCase(fbName) = "gpt"
     THEN /\ fbpc' = "ret_true"
          /\ UNCHANGED fbCmds
     ELSE IF CeilDiv(fbSize, SECTOR_SIZE_IN_BYTES) > fbPart.sectors
     THEN /\ fbpc' = "ret_false"
          /\ UNCHANGED fbCmds
     ELSE /\ fbpc' = "writing"
          /\ fbCmds' = Append(fbCmds, IF fbSparse THEN "cmdErase"
                                                  ELSE "cmdProgram")
  /\ UNCHANGED <<fbName, fbSize, fbSparse, fbLuns, fbIdx, fbPart>>
  /\ UNCHANGED notFlashBlob

FlashBlobNext == FlashBlobGetGpt \/ FlashBlobNotFound \/ FlashBlobCheck

InitFlashBlob == FlashBlobInit /\ ConnIdle /\ FlashIdle /\ InfoIdle /\ EraseIdle /\ SlotIdle /\ SetSlotIdle /\ RepairIdle /\ SparseIdle /\ ProgramIdle /\ ConfigIdle /\ ReadBufferIdle /\ XmlIdle /\ ProbeIdle /\ HeaderIdle /\ WaitIdle /\ StreamIdle /\ PatchIdle /\ CheckIdle /\ LoggerIdle /\ TimeoutIdle
SpecFlashBlob == InitFlashBlob /\ [][FlashBlobNext]_vars

(***************************************************************************)
(* xmlParser.getResponse                                                   *)
(***************************************************************************)
\* the attributes a <response> element may carry: any of value and rawmode
ResponseAttributes ==
  {r \in UNION {[names -> {"ACK", "NAK", "true", "false"}] :
                  names \in SUBSET {"value", "rawmode"}} :
     /\ "value" \in DOMAIN r => r["value"] \in {"ACK", "NAK"}
     /\ "rawmode" \in DOMAIN r => r["rawmode"] \in {"true", "false"}}

\* a plausible slip: the attribute of the earlier document is kept
ObjectAssignKeep(target, source) ==
  [a \in DOMAIN target \cup DOMAIN source |->
     IF a \in DOMAIN target THEN target[a] ELSE source[a]]

\* Object.assign(target, source)
ObjectAssign(target, source) ==
  [a \in DOMAIN target \cup DOMAIN source |->
     IF a \in DOMAIN source THEN source[a] ELSE target[a]]

\* the empty object
EmptyObject == [a \in {} |-> "none"]

XmlInit ==
  /\ xmDocs \in UNION {[1..n -> ResponseAttributes] : n \in 1..MaxDocs}
  /\ xmIdx = 0
  /\ xmContent = EmptyObject
  /\ xmpc = "parse"

\* getResponse, lines 40-42: the next document of #parseXmlDocuments
XmlAssign ==
  /\ xmpc = "parse"
  /\ xmIdx < Len(xmDocs)
  /\ xmContent' = ObjectAssign(xmContent, xmDocs[xmIdx + 1])
  /\ xmIdx' = xmIdx + 1
  /\ UNCHANGED <<xmDocs, xmpc>>
  /\ UNCHANGED notXml

\* getResponse, line 43
XmlReturn ==
  /\ xmpc = "parse"
  /\ xmIdx = Len(xmDocs)
  /\ xmpc' = "done"
  /\ UNCHANGED <<xmDocs, xmIdx, xmContent>>
  /\ UNCHANGED notXml

XmlNext == XmlAssign \/ XmlReturn

InitXml == XmlInit /\ ConnIdle /\ FlashIdle /\ InfoIdle /\ EraseIdle /\ SlotIdle /\ SetSlotIdle /\ RepairIdle /\ SparseIdle /\ ProgramIdle /\ ConfigIdle /\ ReadBufferIdle /\ FlashBlobIdle /\ ProbeIdle /\ HeaderIdle /\ WaitIdle /\ StreamIdle /\ PatchIdle /\ CheckIdle /\ LoggerIdle /\ TimeoutIdle
SpecXml == InitXml /\ [][XmlNext]_vars

(***************************************************************************)
(* Sahara.connect on its own                                               *)
(***************************************************************************)
ProbeInit ==
  /\ probeFirst \in ProbeKinds
  /\ probeLate \in ProbeKinds
  /\ connectResult = "none"
  /\ probepc = "read"

\* connect, lines 224-239: the first read and its classification
ProbeFirstRead ==
  /\ probepc = "read"
  /\ IF probeFirst.len > 1
     THEN /\ connectResult' = SaharaConnect(probeFirst, probeLate)
          /\ probepc' = "done"
     ELSE /\ probepc' = "nop"
          /\ UNCHANGED connectResult
  /\ UNCHANGED <<probeFirst, probeLate>>
  /\ UNCHANGED notProbe

\* connect, lines 240-256: the no-op XML and what is read after it
ProbeNop ==
  /\ probepc = "nop"
  /\ connectResult' = SaharaConnect(probeFirst, probeLate)
  /\ probepc' = "done"
  /\ UNCHANGED <<probeFirst, probeLate>>
  /\ UNCHANGED notProbe

ProbeNext == ProbeFirstRead \/ ProbeNop

InitProbe == ProbeInit /\ ConnIdle /\ FlashIdle /\ InfoIdle /\ EraseIdle /\ SlotIdle /\ SetSlotIdle /\ RepairIdle /\ SparseIdle /\ ProgramIdle /\ ConfigIdle /\ ReadBufferIdle /\ FlashBlobIdle /\ XmlIdle /\ HeaderIdle /\ WaitIdle /\ StreamIdle /\ PatchIdle /\ CheckIdle /\ LoggerIdle /\ TimeoutIdle
SpecProbe == InitProbe /\ [][ProbeNext]_vars

(***************************************************************************)
(* GPT.parseHeader                                                         *)
(***************************************************************************)
\* a header sector: the fields parseHeader looks at, the bytes that follow
\* the 92 bytes of the struct (all zero or not) and the stored CRC32
HeaderSector(signature, revision, headerSize, currentLba, tail, headerCrc32) ==
  [signature |-> signature, revision |-> revision, headerSize |-> headerSize,
   currentLba |-> currentLba, tail |-> tail, headerCrc32 |-> headerCrc32]

\* the first n bytes of a header sector with the CRC32 field zeroed
HeaderBytes(h, n) ==
  [signature |-> h.signature, revision |-> h.revision,
   headerSize |-> h.headerSize, currentLba |-> h.currentLba,
   tailLen |-> IF n > GPT_HEADER_BYTES THEN n - GPT_HEADER_BYTES ELSE 0,
   tail |-> IF n > GPT_HEADER_BYTES THEN h.tail ELSE "zero"]

\* the header sectors a device may hold: the CRC32 stored was computed over
\* headerSize bytes, over the 92 bytes of the struct, or is stale
HeaderSectors ==
  UNION {{HeaderSector(sig, rev, size, lba, tail, crc32(HeaderBytes(c, n))) :
            n \in {size, GPT_HEADER_BYTES},
            c \in {HeaderSector(sig, rev, size, l, tail, 0) : l \in {lba, lba + 1}}} :
         sig \in {"EFI PART", "EFI PARU"}, rev \in {65536, 65537},
         size \in {GPT_HEADER_BYTES - 1, GPT_HEADER_BYTES, GPT_HEADER_BYTES + 4,
                   512, SECTOR_SIZE_IN_BYTES, SECTOR_SIZE_IN_BYTES + 1},
         lba \in {1, 2}, tail \in {"zero", "other"}}

\* GPTHeader.from(data).$toBuffer() with headerCrc32 set to 0: the 92 bytes
\* of the struct (gpt.spec.js, parseHeader: a 4096-byte sector with
\* headerSize 92 has no mismatch)
ToBuffer(h) == HeaderBytes(h, GPT_HEADER_BYTES)

HeaderInit ==
  /\ hdData \in HeaderSectors
  /\ hdResult = [null |-> FALSE, mismatchCrc32 |-> FALSE]
  /\ hdpc = "parse"

\* parseHeader, lines 126-154, with the GPT built for sectors of
\* SECTOR_SIZE_IN_BYTES and actualLba 1
GptParseHeader ==
  /\ hdpc = "parse"
  /\ hdResult' =
       IF hdData.signature # "EFI PART"
       THEN [null |-> TRUE, mismatchCrc32 |-> FALSE]
       ELSE IF hdData.revision # 65536
       THEN [null |-> TRUE, mismatchCrc32 |-> FALSE]
       ELSE IF \/ hdData.headerSize < GPT_HEADER_BYTES
               \/ hdData.headerSize > SECTOR_SIZE_IN_BYTES
       THEN [null |-> TRUE, mismatchCrc32 |-> FALSE]
       ELSE [null |-> FALSE,
             mismatchCrc32 |-> hdData.headerCrc32 # crc32(ToBuffer(hdData))]
  /\ hdpc' = "done"
  /\ UNCHANGED hdData
  /\ UNCHANGED notHeader

HeaderNext == GptParseHeader

InitHeader == HeaderInit /\ ConnIdle /\ FlashIdle /\ InfoIdle /\ EraseIdle /\ SlotIdle /\ SetSlotIdle /\ RepairIdle /\ SparseIdle /\ ProgramIdle /\ ConfigIdle /\ ReadBufferIdle /\ FlashBlobIdle /\ XmlIdle /\ ProbeIdle /\ WaitIdle /\ StreamIdle /\ PatchIdle /\ CheckIdle /\ LoggerIdle /\ TimeoutIdle
SpecHeader == InitHeader /\ [][HeaderNext]_vars

(***************************************************************************)
(* The read loops of Firehose.xmlSend and Firehose.waitForData             *)
(***************************************************************************)
\* what a device sends: documents with log lines only ("log") and documents
\* that hold a response with a value ("resp")
PacketLists == UNION {[1..n -> {"log", "resp"}] : n \in 0..MaxPackets}

\* containsBytes("<response value", rData), containsBytes("response value",
\* tmp)
ContainsResponse(data) == \E i \in 1..Len(data) : data[i] = "resp"

GivesUpLater(loop, count) ==
  IF loop = "xmlSend" THEN count > XmlSendTimeout + 1
  ELSE count = EmptyReadLimit + 1

\* xmlSend, line 76: counter > timeout; waitForData, line 178: timeout === 4
GivesUp(loop, count) ==
  IF loop = "xmlSend" THEN count > XmlSendTimeout
  ELSE count = EmptyReadLimit

WaitInit ==
  /\ wtLoop \in {"xmlSend", "waitForData"}
  /\ wtDevice \in PacketLists
  /\ wtReads = <<>>
  /\ wtCounter = 0
  /\ wtData = <<>>
  /\ wtpc = "loop"

\* xmlSend, lines 71-72, waitForData, lines 174-175: the loop test passes
\* and a read returns the next packet of the device
WaitReadData ==
  /\ wtpc = "loop"
  /\ ~ContainsResponse(wtData)
  /\ wtDevice # <<>>
  /\ wtReads' = Append(wtReads, Head(wtDevice))
  /\ wtData' = Append(wtData, Head(wtDevice))
  /\ wtDevice' = Tail(wtDevice)
  /\ UNCHANGED <<wtLoop, wtCounter, wtpc>>
  /\ UNCHANGED notWait

\* xmlSend, lines 72-80, waitForData, lines 175-183: the read returns
\* nothing; the loop counts it and gives up or goes on
WaitReadEmpty ==
  /\ wtpc = "loop"
  /\ ~ContainsResponse(wtData)
  /\ wtReads' = Append(wtReads, "empty")
  /\ wtCounter' = wtCounter + 1
  /\ wtpc' = IF GivesUp(wtLoop, wtCounter + 1) THEN "done" ELSE "loop"
  /\ UNCHANGED <<wtLoop, wtDevice, wtData>>
  /\ UNCHANGED notWait

\* xmlSend, line 71, waitForData, line 174: the loop test fails
WaitLoopEnds ==
  /\ wtpc = "loop"
  /\ ContainsResponse(wtData)
  /\ wtpc' = "done"
  /\ UNCHANGED <<wtLoop, wtDevice, wtReads, wtCounter, wtData>>
  /\ UNCHANGED notWait

WaitNext == WaitReadData \/ WaitReadEmpty \/ WaitLoopEnds

InitWait == WaitInit /\ ConnIdle /\ FlashIdle /\ InfoIdle /\ EraseIdle /\ SlotIdle /\ SetSlotIdle /\ RepairIdle /\ SparseIdle /\ ProgramIdle /\ ConfigIdle /\ ReadBufferIdle /\ FlashBlobIdle /\ XmlIdle /\ ProbeIdle /\ HeaderIdle /\ StreamIdle /\ PatchIdle /\ CheckIdle /\ LoggerIdle /\ TimeoutIdle
\* every read of the host returns, with data or without
SpecWait == InitWait /\ [][WaitNext]_vars /\ WF_vars(WaitNext)

(***************************************************************************)
(* The bulk writes of Firehose.cmdProgram and Firehose.cmdErase            *)
(***************************************************************************)
\* how a transferOut of usbClass.write ends; a zero-length write is tried a
\* second time when the first try throws (usblib.js, lines 269-276)
TransferOutcomes == {"sent", "retried", "throws"}

TurnAfterPayloadSkips(cmd) == IF cmd = "erase" THEN "loop" ELSE "empty"

\* cmdProgram, lines 233-234, cmdErase, lines 286-288: what a loop turn does
\* after its payload write
TurnAfterPayload(cmd) == "empty"

StreamInit ==
  /\ stCmd \in {"program", "erase"}
  /\ stSparse \in (IF stCmd = "program" THEN BOOLEAN ELSE {FALSE})
  /\ stLeft \in 0..MaxStreamChunks
  /\ stBulk = <<>>
  /\ stResult = "none"
  /\ stpc = "start"

\* cmdProgram, lines 210-223, cmdErase, lines 274-283: the request is sent
\* and answered
StreamRequest ==
  /\ stpc = "start"
  /\ \E req \in RequestAnswers :
       IF XmlSendResp(req)
       THEN /\ stpc' = "loop"
            /\ stResult' = stResult
       ELSE /\ stpc' = "done"
            /\ stResult' = "true"
  /\ UNCHANGED <<stCmd, stSparse, stLeft, stBulk>>
  /\ UNCHANGED notStream

\* cmdProgram, line 233, cmdErase, line 286: a payload chunk is written
StreamChunk ==
  /\ stpc = "loop"
  /\ stLeft > 0
  /\ \E out \in {"sent", "throws"} :
       IF out = "sent"
       THEN /\ stBulk' = Append(stBulk, "payload")
            /\ stLeft' = stLeft - 1
            /\ stpc' = TurnAfterPayload(stCmd)
            /\ stResult' = stResult
       ELSE /\ stpc' = "done"
            /\ stResult' = "thrown"
            /\ UNCHANGED <<stBulk, stLeft>>
  /\ UNCHANGED <<stCmd, stSparse>>
  /\ UNCHANGED notStream

\* cmdProgram, line 234, cmdErase, line 288: the zero-length write of the
\* turn
StreamEmpty ==
  /\ stpc = "empty"
  /\ \E out \in TransferOutcomes :
       IF out = "throws"
       THEN /\ stpc' = "done"
            /\ stResult' = "thrown"
            /\ stBulk' = stBulk
       ELSE /\ stBulk' = Append(stBulk, "empty")
            /\ stpc' = IF stCmd = "program" /\ stSparse /\ stLeft > 0
                       THEN "extra" ELSE "loop"
            /\ stResult' = stResult
  /\ UNCHANGED <<stCmd, stSparse, stLeft>>
  /\ UNCHANGED notStream

\* cmdProgram, lines 241-243: the second zero-length write, for a sparse
\* image that is not written to its end
StreamExtraEmpty ==
  /\ stpc = "extra"
  /\ \E out \in TransferOutcomes :
       IF out = "throws"
       THEN /\ stpc' = "done"
            /\ stResult' = "thrown"
            /\ stBulk' = stBulk
       ELSE /\ stBulk' = Append(stBulk, "empty")
            /\ stpc' = "loop"
            /\ stResult' = stResult
  /\ UNCHANGED <<stCmd, stSparse, stLeft>>
  /\ UNCHANGED notStream

\* cmdProgram, line 252, cmdErase, line 291: the final response is awaited
StreamWait ==
  /\ stpc = "loop"
  /\ stLeft = 0
  /\ stpc' = "wait"
  /\ UNCHANGED <<stCmd, stSparse, stLeft, stBulk, stResult>>
  /\ UNCHANGED notStream

\* cmdProgram, lines 253-264, cmdErase, lines 292-301: the final response
StreamFinish ==
  /\ stpc = "wait"
  /\ \E fin \in FinalAnswers \cup {NoResponse} :
       stResult' = IF fin.value = "ACK" THEN "true"
                   ELSE IF stCmd = "erase" THEN "thrown" ELSE "false"
  /\ stpc' = "done"
  /\ UNCHANGED <<stCmd, stSparse, stLeft, stBulk>>
  /\ UNCHANGED notStream

StreamNext ==
  \/ StreamRequest
  \/ StreamChunk
  \/ StreamEmpty
  \/ StreamExtraEmpty
  \/ StreamWait
  \/ StreamFinish

InitStream == StreamInit /\ ConnIdle /\ FlashIdle /\ InfoIdle /\ EraseIdle /\ SlotIdle /\ SetSlotIdle /\ RepairIdle /\ SparseIdle /\ ProgramIdle /\ ConfigIdle /\ ReadBufferIdle /\ FlashBlobIdle /\ XmlIdle /\ ProbeIdle /\ HeaderIdle /\ WaitIdle /\ PatchIdle /\ CheckIdle /\ LoggerIdle /\ TimeoutIdle
SpecStream == InitStream /\ [][StreamNext]_vars

(***************************************************************************)
(* patchNewGptData and setPartitionFlags (src/src/gpt.js), as              *)
(* qdlDevice.setActiveSlot applies them to a pair of entries               *)
(***************************************************************************)
\* 64-bit flags: top is flags >> PART_ATT_PRIORITY_BIT (16 bits), low the
\* 48 bits below
Flags(low, top) == [low |-> low, top |-> top]

\* a partition entry as patchNewGptData sees it
GptEntry(type, flags) == [type |-> type, flags |-> flags]

PairFlags ==
  {Flags(l, t) : l \in {0, 1},
                 t \in {0, PART_ATT_ACTIVE, BOOT_INACTIVE_FLAGS,
                        BOOT_ACTIVE_FLAGS}}

PairEntries == {GptEntry(t, f) : t \in {"guidA", "guidB"}, f \in PairFlags}

\* setPartitionFlags, lines 208-225
setPartitionFlags(flags, active, isBoot) ==
  IF active
  THEN IF isBoot THEN Flags(0, BOOT_ACTIVE_FLAGS)
       ELSE Flags(flags.low, BitOr(flags.top, PART_ATT_ACTIVE))
  ELSE IF isBoot THEN Flags(0, BOOT_INACTIVE_FLAGS)
       ELSE Flags(flags.low, BitClear(flags.top, PART_ATT_ACTIVE))

\* patchNewGptData, lines 342-354: the two entries it returns
patchNewGptData(partEntryA, partEntryB, slot, isBoot) ==
  <<GptEntry(partEntryB.type,
             setPartitionFlags(partEntryA.flags, slot = "a", isBoot)),
    GptEntry(partEntryA.type,
             setPartitionFlags(partEntryB.flags, slot = "b", isBoot))>>

PatchInit ==
  /\ ptBase \in {"boot", "system"}
  /\ ptEntryA \in PairEntries
  /\ ptEntryB \in PairEntries
  /\ ptSlots = <<>>
  /\ ptBefore = <<>>

\* setActiveSlot, lines 385-400, for one pair: the entries are patched and
\* set into the table that is written and read back by the next call
PatchPair ==
  /\ Len(ptSlots) < MaxApplications
  /\ \E slot \in {"a", "b"} :
       LET pData == patchNewGptData(ptEntryA, ptEntryB, slot,
                                    ptBase = "boot")
       IN /\ ptEntryA' = pData[1]
          /\ ptEntryB' = pData[2]
          /\ ptSlots' = Append(ptSlots, slot)
  /\ ptBefore' = <<ptEntryA, ptEntryB>>
  /\ UNCHANGED ptBase
  /\ UNCHANGED notPatch

PatchNext == PatchPair

InitPatch == PatchInit /\ ConnIdle /\ FlashIdle /\ InfoIdle /\ EraseIdle /\ SlotIdle /\ SetSlotIdle /\ RepairIdle /\ SparseIdle /\ ProgramIdle /\ ConfigIdle /\ ReadBufferIdle /\ FlashBlobIdle /\ XmlIdle /\ ProbeIdle /\ HeaderIdle /\ WaitIdle /\ StreamIdle /\ CheckIdle /\ LoggerIdle /\ TimeoutIdle
SpecPatch == InitPatch /\ [][PatchNext]_vars

(***************************************************************************)
(* checkHeaderCrc and fixGptCrc (src/src/gpt.js) on a GPT byte buffer      *)
(***************************************************************************)
\* crc32 of a header whose other fields are told apart by the number fields
\* and whose crc32PartEntries field holds partCrc, the CRC field zeroed
HeaderCrc(fields, partCrc) == 1000 * fields + partCrc + 7

\* a GPT byte buffer: the header fields other than the CRCs, the stored
\* header CRC32 (offset 0x10), the stored entry-array CRC32 (offset 0x58)
\* and the partition table
GptData(fields, crc32Field, crc32PartEntries, table) ==
  [fields |-> fields, crc32 |-> crc32Field,
   crc32PartEntries |-> crc32PartEntries, table |-> table]

\* buffers as they are read from a device: right or stale in either CRC
GptBuffers ==
  UNION {{GptData(f, c, p, t) :
            t \in 1..2, p \in {0, TableCrc(1), TableCrc(2)},
            c \in {0} \cup {HeaderCrc(f, q) :
                              q \in {0, TableCrc(1), TableCrc(2)}}} :
         f \in 1..2}

\* fixGptCrc, lines 181-198: both CRCs are recomputed and the header is
\* set into the buffer it was given
fixGptCrc(buf) ==
  GptData(buf.fields, HeaderCrc(buf.fields, TableCrc(buf.table)),
          TableCrc(buf.table), buf.table)

\* parseHeader of gpt.js: the CRC fields of guidGpt.header
ParsedCrcs(buf) ==
  [crc32 |-> buf.crc32, crc32PartEntries |-> buf.crc32PartEntries]

CheckInit ==
  /\ ckData \in GptBuffers
  /\ ckFirst = ckData
  /\ ckHeader = <<>>
  /\ ckResults = <<>>
  /\ ckpc = "parse"

\* getGpt: the buffer is parsed into guidGpt
CheckParse ==
  /\ ckpc = "parse"
  /\ Len(ckResults) < MaxChecks
  /\ ckHeader' = ParsedCrcs(ckData)
  /\ ckpc' = "check"
  /\ UNCHANGED <<ckData, ckFirst, ckResults>>
  /\ UNCHANGED notCheck

\* checkHeaderCrc, lines 233-246, with the fixGptCrc call of line 236
CheckHeaderCrc ==
  /\ ckpc = "check"
  /\ LET testGptData == fixGptCrc(ckData)
     IN /\ ckData' = testGptData
        /\ ckResults' =
             Append(ckResults,
                    (ckHeader.crc32 # testGptData.crc32)
                      \/ (ckHeader.crc32PartEntries
                            # testGptData.crc32PartEntries))
  /\ ckpc' = "parse"
  /\ UNCHANGED <<ckFirst, ckHeader>>
  /\ UNCHANGED notCheck

CheckNext == CheckParse \/ CheckHeaderCrc

InitCheck == CheckInit /\ ConnIdle /\ FlashIdle /\ InfoIdle /\ EraseIdle /\ SlotIdle /\ SetSlotIdle /\ RepairIdle /\ SparseIdle /\ ProgramIdle /\ ConfigIdle /\ ReadBufferIdle /\ FlashBlobIdle /\ XmlIdle /\ ProbeIdle /\ HeaderIdle /\ WaitIdle /\ StreamIdle /\ PatchIdle /\ LoggerIdle /\ TimeoutIdle
SpecCheck == InitCheck /\ [][CheckNext]_vars

(***************************************************************************)
(* Logger.deviceMessage and flushDeviceMessages (src/unnamed/part_007)     *)
(***************************************************************************)
\* a raw device message: its prefix and the text after it, trimmed
DeviceMessage(prefix, body) == [prefix |-> prefix, body |-> body]

DeviceMessages ==
  {DeviceMessage(pre, b) : pre \in {"ERROR:", "INFO:", ""}, b \in {"a", "b"}}

\* a line on the console: a device message or a repeat count, through
\* console.error or console.info
ConsoleLine(kind, text, n, error) ==
  [kind |-> kind, text |-> text, n |-> n, error |-> error]

\* deviceMessage, lines 102-112: the level of a message
MessageLogLevel(message) ==
  IF message.prefix = "ERROR:" THEN LogLevelError
  ELSE IF message.prefix = "INFO:" THEN LogLevelDebug
  ELSE LogLevelInfo

\* #printDeviceMessage, lines 137-141
printDeviceMessage(level, line, logLevel) ==
  IF level < logLevel THEN <<>>
  ELSE <<[line EXCEPT !.error = (logLevel = LogLevelError)]>>

\* #printPendingDeviceDuplicates, lines 144-149: the lines it prints
printPendingDeviceDuplicates(level, state) ==
  IF state.count <= 1 THEN <<>>
  ELSE printDeviceMessage(level,
         ConsoleLine("repeat", state.lastMessage, state.count - 1, FALSE),
         state.lastLogLevel)

\* #printPendingDeviceDuplicates, line 148
CountAfterPending(state) == IF state.count <= 1 THEN state.count ELSE 1

LogOp(op, message, lines) == [op |-> op, message |-> message, lines |-> lines]

NoMessage == DeviceMessage("", "")

\* constructor, lines 75-83
LoggerInit ==
  /\ lgLevel \in LogLevelSilent..LogLevelDebug
  /\ deviceState = [lastMessage |-> "", lastLogLevel |-> LogLevelInfo,
                    count |-> 0, timeout |-> "null"]
  /\ lgTimers = 0
  /\ lgOps = <<>>

\* clearTimeout(state.timeout): a timer that has fired is not pending
TimersAfterClear == IF deviceState.timeout = "pending" THEN lgTimers - 1
                    ELSE lgTimers

\* deviceMessage, lines 99-130
LoggerDeviceMessage ==
  /\ Len(lgOps) < MaxLogOps
  /\ \E message \in DeviceMessages :
       IF lgLevel < LogLevelInfo
       THEN /\ lgOps' = Append(lgOps, LogOp("message", message, <<>>))
            /\ UNCHANGED <<deviceState, lgTimers>>
       ELSE LET formattedMessage == message.body
                logLevel == MessageLogLevel(message)
            IN IF formattedMessage # deviceState.lastMessage
               THEN /\ deviceState' =
                         [lastMessage |-> formattedMessage,
                          lastLogLevel |-> logLevel,
                          count |-> 1, timeout |-> "null"]
                    /\ lgTimers' = TimersAfterClear
                    /\ lgOps' = Append(lgOps, LogOp("message", message,
                         printPendingDeviceDuplicates(lgLevel, deviceState)
                           \o printDeviceMessage(lgLevel,
                                ConsoleLine("message", formattedMessage, 0,
                                            FALSE),
                                logLevel)))
               ELSE /\ deviceState' =
                         [deviceState EXCEPT !.count = @ + 1,
                                             !.timeout = "pending"]
                    /\ lgTimers' = TimersAfterClear + 1
                    /\ lgOps' = Append(lgOps, LogOp("message", message, <<>>))
  /\ UNCHANGED lgLevel
  /\ UNCHANGED notLogger

\* the callback of setTimeout, line 128, after debounceMs
LoggerTimerFires ==
  /\ Len(lgOps) < MaxLogOps
  /\ lgTimers > 0
  /\ lgTimers' = lgTimers - 1
  /\ deviceState' = [deviceState EXCEPT !.count = CountAfterPending(deviceState),
                                        !.timeout = "fired"]
  /\ lgOps' = Append(lgOps, LogOp("timer", NoMessage,
                 printPendingDeviceDuplicates(lgLevel, deviceState)))
  /\ UNCHANGED lgLevel
  /\ UNCHANGED notLogger

\* flushDeviceMessages, lines 152-159
LoggerFlush ==
  /\ Len(lgOps) < MaxLogOps
  /\ lgTimers' = TimersAfterClear
  /\ deviceState' = [deviceState EXCEPT !.count = CountAfterPending(deviceState),
                                        !.timeout = "null"]
  /\ lgOps' = Append(lgOps, LogOp("flush", NoMessage,
                 printPendingDeviceDuplicates(lgLevel, deviceState)))
  /\ UNCHANGED lgLevel
  /\ UNCHANGED notLogger

LoggerNext == LoggerDeviceMessage \/ LoggerTimerFires \/ LoggerFlush

InitLogger == LoggerInit /\ ConnIdle /\ FlashIdle /\ InfoIdle /\ EraseIdle /\ SlotIdle /\ SetSlotIdle /\ RepairIdle /\ SparseIdle /\ ProgramIdle /\ ConfigIdle /\ ReadBufferIdle /\ FlashBlobIdle /\ XmlIdle /\ ProbeIdle /\ HeaderIdle /\ WaitIdle /\ StreamIdle /\ PatchIdle /\ CheckIdle /\ TimeoutIdle
SpecLogger == InitLogger /\ [][LoggerNext]_vars

(***************************************************************************)
(* runWithTimeout (src/src/utils.js, lines 113-134)                        *)
(***************************************************************************)
\* a promise: "pending", "fulfilled" or "rejected", with its value or reason
Promise(state, value) == [state |-> state, value |-> value]

PendingPromise == Promise("pending", "none")

\* how the promise argument may settle
Outcomes ==
  {Promise("fulfilled", v) : v \in {"sahara", "xml", "empty"}}
    \cup {Promise("rejected", e) : e \in {"NetworkError", "AbortError"}}

\* the timeouts Sahara.connect passes (src/unnamed/part_003, lines 225-244)
Timeouts == {500, 1000, 2000}

\* the error of line 117, which names the timeout
TimedOutError(timeout) == <<"Timed out while trying to connect", timeout>>

\* resolve and reject of the returned promise: only the first call settles
Settle(result, outcome) ==
  IF result.state = "pending" THEN outcome ELSE result

FinallyKeepsTimer(timer, flag) == timer

\* lines 129-132: clearTimeout(tid) unless the timer has fired
FinallyClearsTimer(timer, flag) ==
  IF ~flag /\ timer = "set" THEN "cleared" ELSE timer

\* lines 114-119: the executor sets the timer; the promise argument may
\* have settled already
TimeoutInit ==
  /\ rtTimeout \in Timeouts
  /\ rtPromise \in {PendingPromise} \cup Outcomes
  /\ rtChain = IF rtPromise.state = "pending" THEN "idle" ELSE "then"
  /\ rtTimer = "set"
  /\ timedOut = FALSE
  /\ rtResult = Promise("pending", <<"none", 0>>)
  /\ rtFirst = IF rtPromise.state = "pending" THEN "none" ELSE "promise"

\* the promise argument settles
TimeoutPromiseSettles ==
  /\ rtPromise.state = "pending"
  /\ rtPromise' \in Outcomes
  /\ rtChain' = "then"
  /\ rtFirst' = IF rtFirst = "none" THEN "promise" ELSE rtFirst
  /\ UNCHANGED <<rtTimeout, rtTimer, timedOut, rtResult>>
  /\ UNCHANGED notTimeout

\* lines 120-124: .then((val) => { if (!timedOut) resolve(val) })
TimeoutThen ==
  /\ rtChain = "then"
  /\ rtResult' = IF rtPromise.state = "fulfilled" /\ ~timedOut
                 THEN Settle(rtResult,
                             Promise("fulfilled", <<rtPromise.value, 0>>))
                 ELSE rtResult
  /\ rtChain' = "catch"
  /\ UNCHANGED <<rtTimeout, rtPromise, rtTimer, timedOut, rtFirst>>
  /\ UNCHANGED notTimeout

\* lines 125-128: .catch((err) => { if (!timedOut) reject(err) })
TimeoutCatch ==
  /\ rtChain = "catch"
  /\ rtResult' = IF rtPromise.state = "rejected" /\ ~timedOut
                 THEN Settle(rtResult,
                             Promise("rejected", <<rtPromise.value, 0>>))
                 ELSE rtResult
  /\ rtChain' = "finally"
  /\ UNCHANGED <<rtTimeout, rtPromise, rtTimer, timedOut, rtFirst>>
  /\ UNCHANGED notTimeout

\* lines 129-132: .finally(() => { if (!timedOut) clearTimeout(tid) })
TimeoutFinally ==
  /\ rtChain = "finally"
  /\ rtTimer' = FinallyClearsTimer(rtTimer, timedOut)
  /\ rtChain' = "done"
  /\ UNCHANGED <<rtTimeout, rtPromise, timedOut, rtResult, rtFirst>>
  /\ UNCHANGED notTimeout

\* lines 116-119: the timer callback, a task of its own: it does not run
\* while reactions of the promise are queued
TimeoutTimerFires ==
  /\ rtTimer = "set"
  /\ rtChain \in {"idle", "done"}
  /\ rtTimer' = "fired"
  /\ timedOut' = TRUE
  /\ rtResult' = Settle(rtResult,
                        Promise("rejected", TimedOutError(rtTimeout)))
  /\ rtFirst' = IF rtFirst = "none" THEN "timer" ELSE rtFirst
  /\ UNCHANGED <<rtTimeout, rtPromise, rtChain>>
  /\ UNCHANGED notTimeout

TimeoutReaction == TimeoutThen \/ TimeoutCatch \/ TimeoutFinally

TimeoutNext ==
  \/ TimeoutPromiseSettles
  \/ TimeoutThen
  \/ TimeoutCatch
  \/ TimeoutFinally
  \/ TimeoutTimerFires

InitTimeout == TimeoutInit /\ ConnIdle /\ FlashIdle /\ InfoIdle /\ EraseIdle /\ SlotIdle /\ SetSlotIdle /\ RepairIdle /\ SparseIdle /\ ProgramIdle /\ ConfigIdle /\ ReadBufferIdle /\ FlashBlobIdle /\ XmlIdle /\ ProbeIdle /\ HeaderIdle /\ WaitIdle /\ StreamIdle /\ PatchIdle /\ CheckIdle /\ LoggerIdle
\* a timer that is set fires, and queued reactions run
SpecTimeout == InitTimeout /\ [][TimeoutNext]_vars /\ WF_vars(TimeoutTimerFires) /\ WF_vars(TimeoutReaction)

(***************************************************************************)
(* Claims about Sahara.uploadLoader and qdlDevice.connect                  *)
(***************************************************************************)
\* C5: uploadLoader returns "firehose" only after it has received
\* END_TRANSFER with status SUCCESS, sent DONE_REQ and received DONE_RSP.
C5_FirehoseOnlyAfterDone ==
  upRet = "firehose" => (endOk /\ doneSent /\ doneRsp)

\* C6: every memory read (data_offset, data_len) that uploadLoader serves is
\* answered with exactly data_len bytes, byte i being programmer[data_offset
\* + i] inside the programmer and 0 outside it.
C6_SliceZeroPadded ==
  lastWrite.served =>
    /\ Len(lastWrite.data) = lastWrite.len
    /\ \A i \in 0..(lastWrite.len - 1) :
         lastWrite.data[i + 1] =
           IF lastWrite.off + i < Len(programmer)
           THEN programmer[lastWrite.off + i + 1]
           ELSE 0

\* C6 witness: a request that starts at or beyond the end of a non-empty
\* programmer has been served.
C6_PastEndServed ==
  /\ lastWrite.served
  /\ Len(programmer) > 0
  /\ lastWrite.off >= Len(programmer)
  /\ lastWrite.len > 0

\* frames the transfer loop is meant to take
AcceptedInLoop(raw) ==
  /\ raw.t = "pkt"
  /\ \/ raw.cmd = SAHARA_64BIT_MEMORY_READ_DATA /\ raw.a >= MinImageId
     \/ raw.cmd = SAHARA_END_TRANSFER /\ raw.b = SAHARA_STATUS_SUCCESS

\* C7: in the transfer loop every frame other than a memory read with
\* image_id >= 0x0C or an END_TRANSFER with status SUCCESS, and every
\* missing frame, makes uploadLoader fail; none is skipped.
C7_OtherFrameFails ==
  (loopFrame # NoFrame /\ ~AcceptedInLoop(loopFrame)) => cpc = "failed"

\* C8: connect returns normally only in mode "firehose" with Firehose set
\* up; whenever connect fails the firehose accessor still throws, that is
\* #firehose is still null.
C8_FailedConnectLeavesNoFirehose ==
  /\ cpc = "connected" => (qdlMode = "firehose" /\ firehoseObj = "set")
  /\ cpc = "failed" => firehoseObj = "null"

(***************************************************************************)
(* Claims about qdlDevice.flashBlob and the Firehose commands              *)
(***************************************************************************)
\* C1: every data chunk of a sparse image that the reader yields at byte
\* offset o is programmed at start sector partition.start + o / sectorSize,
\* on the LUN of the partition.
C1_ChunkSectorFromOffset ==
  image.sparse =>
    \A i \in 1..Len(issued) :
      issued[i].op = "cmdProgram" =>
        /\ issued[i].start
             = part.sector + issued[i].offset \div SECTOR_SIZE_IN_BYTES
        /\ issued[i].lun = part.lun

\* C2: for a sparse image the erase comes before any program command; once
\* the erase or a chunk's program command has failed, no further program
\* command is issued and flashBlob returns false; no chunk is programmed a
\* second time and nothing is erased again.
C2_EraseFirstStopOnFailure ==
  LET Refused(e) == e.reqAns = "NAK" \/ e.finAns = "NAK"
  IN image.sparse =>
    /\ \A i \in 1..Len(issued) :
         issued[i].op = "cmdProgram" => (i > 1 /\ issued[1].op = "cmdErase")
    /\ \A i, j \in 1..Len(issued) :
         (i < j /\ Refused(issued[i])) => issued[j].op # "cmdProgram"
    /\ \A i, j \in 1..Len(issued) :
         i < j => /\ issued[j].op # "cmdErase"
                  /\ issued[i].op = "cmdProgram"
                       => issued[i].offset # issued[j].offset
    /\ (fpc \in {"ret_true", "ret_false", "thrown"}
          /\ \E i \in 1..Len(issued) : Refused(issued[i]))
         => fpc = "ret_false"

\* C3: cmdProgram returns true only if the device ACKed the request and
\* ACKed again after the payload was streamed; when the request is answered
\* with NAK nothing is streamed and the result is not true.
C3_ProgramTrueNeedsBothAcks ==
  (cur.op = "cmdProgram" /\ cph = "returned") =>
    /\ cur.result = "true"
         => (cur.reqAns = "ACK" /\ cur.streamed /\ cur.finAns = "ACK")
    /\ cur.reqAns = "NAK" => (~cur.streamed /\ cur.result # "true")

\* C4: xmlSend reports resp = true exactly when the merged response has no
\* value attribute or its value is "ACK" or "true", whatever its rawmode.
C4_XmlSendOkIsStatus ==
  lastXml.set =>
    (lastXml.ok <=> lastXml.resp.value \in {"none", "ACK", "true"})

\* C10: a response the device sends is consumed by the command it answers,
\* never by a later one, also when it arrives after a read loop gave up.
C10_ResponseTakenByItsCommand == taken.by = taken.for

(***************************************************************************)
(* Claim about the single command in flight                                *)
(***************************************************************************)
\* C9: at most one Firehose command is in flight on the transport: the
\* request of a command is written only once the exchange of the previous
\* one has completed, also when getActiveSlot and getStorageInfo are started
\* together.
C9_OneCommandInFlight == Cardinality(inFlight) <= 1

C12_EraseCallsAtMost512Ki ==
  \A i \in 1..Len(erased) : erased[i].nsect <= 524288

\* C13: when the device refuses one cmdErase of eraseLun (NAK, or no
\* response value), eraseLun returns false and that cmdErase is the last.
C13_EraseLunFalseOnRefusal ==
  eraseFlow = "eraseLun" =>
    \A i \in 1..Len(erased) :
      erased[i].refused => (i = Len(erased) /\ epc = "ret_false")

(***************************************************************************)
(* Claims about the A/B slot of a GPT                                      *)
(***************************************************************************)
\* C14 as stated: for every parsed GPT and each s, getActiveSlot() after
\* setActiveSlot(s) returns s.
C14_SlotRoundTripAnyGpt ==
  (lastSet # "none" /\ gotSlot # "none") => gotSlot = lastSet

\* C14 amended: for every parsed GPT that holds a present entry whose name
\* ends in _s, getActiveSlot() after setActiveSlot(s) returns s; without
\* such an entry getActiveSlot() falls back to "a".
C14_SlotRoundTrip ==
  LET HasSlotEntry(slot) ==
        \E i \in 1..Len(partEntries) :
          partEntries[i].used /\ partEntries[i].name.suffix = "_" \o slot
  IN (lastSet # "none" /\ gotSlot # "none") =>
       gotSlot = (IF HasSlotEntry(lastSet) THEN lastSet ELSE "a")

\* getActiveSlot has answered "b" after setActiveSlot("b") on a table whose
\* first slotted entry is an _a entry that was active before
C14_SetBThenGotB ==
  /\ lastSet = "b"
  /\ gotSlot = "b"
  /\ Len(partEntries) >= 2
  /\ partEntries[1].used /\ partEntries[1].name.suffix = "_a"

\* C15: after setActiveSlot(s) every present entry ending in _a or _b has
\* active = (suffix is _s); boot_a and boot_b have successful = active and
\* are not unbootable; every other slotted entry is unbootable and not
\* successful; tries remaining is 0 for all.
C15_FlagsAfterSetActiveSlot ==
  lastSet # "none" =>
    \A i \in 1..Len(partEntries) :
      LET entry == partEntries[i]
          flags == parseABFlags(entry.attributes)
      IN (entry.used /\ entry.name.suffix \in {"_a", "_b"}) =>
           /\ flags.active = (entry.name.suffix = "_" \o lastSet)
           /\ flags.triesRemaining = 0
           /\ IF entry.name.base = "boot"
              THEN flags.successful = flags.active /\ ~flags.unbootable
              ELSE flags.unbootable /\ ~flags.successful

(***************************************************************************)
(* Claims about qdlDevice.setActiveSlot and the GPT reconciliation         *)
(***************************************************************************)
\* C16 as stated: setActiveSlot issues no device command for a slot that is
\* neither "a" nor "b"; for a valid slot the last device command it issues
\* is cmdSetBootLunId, issued exactly once, with 1 for "a" and 2 for "b".
C16_BootLunIdLastAlways ==
  /\ slotArg \notin {"a", "b"} => devCmds = <<>>
  /\ (slotArg \in {"a", "b"} /\ sspc \in {"returned", "thrown"}) =>
       /\ devCmds # <<>>
       /\ devCmds[Len(devCmds)]
            = DevCmd("cmdSetBootLunId", 0, IF slotArg = "a" THEN 1 ELSE 2)
       /\ \A i \in 1..Len(devCmds) - 1 : devCmds[i].op # "cmdSetBootLunId"

\* C16 amended: no device command for an invalid slot; for a valid slot
\* cmdSetBootLunId is issued at most once, after every GPT read and write,
\* with 1 for "a" and 2 for "b", and it is the last command whenever
\* setActiveSlot returns; a run in which an earlier step throws ends
\* without it.
C16_BootLunIdLast ==
  /\ slotArg \notin {"a", "b"} => devCmds = <<>>
  /\ \A i \in 1..Len(devCmds) :
       devCmds[i].op = "cmdSetBootLunId" =>
         /\ i = Len(devCmds)
         /\ devCmds[i].arg = (IF slotArg = "a" THEN 1 ELSE 2)
  /\ sspc = "returned" =>
       (devCmds # <<>> /\ devCmds[Len(devCmds)].op = "cmdSetBootLunId")

\* setActiveSlot("b") has returned after GPT writes to two LUNs
C16_ReturnedAfterWrites ==
  /\ sspc = "returned"
  /\ slotArg = "b"
  /\ \E i, j \in 1..Len(devCmds) :
       /\ devCmds[i].op = "cmdProgram" /\ devCmds[j].op = "cmdProgram"
       /\ devCmds[i].lun # devCmds[j].lun

\* C18: when a primary and a backup GPT are reconciled: both corrupt, the
\* operation fails; only the primary corrupt, the backup's table is used;
\* primary intact but its entry-array CRC32 differs from the backup's, the
\* primary is kept as read and no error is raised, whatever the backup;
\* otherwise the primary is used.
C18_ReconcilePrefersPrimary ==
  \A i \in 1..Len(reconciled) :
    LET r == reconciled[i]
        Corrupt(c) == (~c.hdrOk) \/ c.partCrc # TableCrc(c.table)
    IN IF Corrupt(r.prim)
       THEN IF Corrupt(r.back) THEN r.throws
            ELSE ~r.throws /\ r.table = r.back.table
       ELSE ~r.throws /\ r.table = r.prim.table

(***************************************************************************)
(* Claims about qdlDevice.repairGpt and the derived backup GPT             *)
(***************************************************************************)
\* C17: repairGpt issues its device commands in this order: program the
\* primary GPT blob at sector 0, fixgpt on the LUN, read the GPT back,
\* program the backup partition-entry array, program the backup header; and
\* once one of the writes has failed no later step is issued.
C17_RepairOrderStopOnFailure ==
  /\ \A i \in 1..Len(repCmds) :
       LET c == repCmds[i].cmd
       IN /\ c.lun = repLun
          /\ i = 1 => (c.op = "cmdProgram" /\ c.arg = 0)
          /\ i = 2 => (c.op = "cmdFixGpt" /\ c.arg = 1)
          /\ i \in 3..5 => c.op = "cmdReadBuffer"
          /\ i = 6 => (c.op = "cmdProgram"
                       /\ c.arg = repBackup.backupPartTableLba)
          /\ i = 7 => (c.op = "cmdProgram" /\ c.arg = repBackup.backupLba)
          /\ i <= 7
  /\ \A i \in 1..Len(repCmds) :
       (repCmds[i].cmd.op = "cmdProgram" /\ ~repCmds[i].acked) =>
         i = Len(repCmds)

\* C19 as stated: the backup header derived from a primary GPT (asAlternate,
\* createBackupGptHeader) has the primary's two LBAs swapped, its entry
\* array ceil(numPartEntries * partEntrySize / sectorSize) sectors below the
\* primary's alternateLba, the same entries and the same partEntriesCrc32
\* as the primary, and the primary is left unmodified.
C19_BackupMirrorsPrimaryCrc ==
  LET h == repDisk.header
      sectors == (h.numPartEntries * h.partEntrySize
                    + SECTOR_SIZE_IN_BYTES - 1) \div SECTOR_SIZE_IN_BYTES
      Derived(d, entries) ==
        /\ d.currentLba = h.backupLba
        /\ d.backupLba = h.currentLba
        /\ d.partEntryStartLba = h.backupLba - sectors
        /\ entries = repPrimary.entries
        /\ d.crc32PartEntries = h.crc32PartEntries
        /\ repPrimary = GptRead(repDisk)
  IN /\ repBackup # NoDerived =>
          Derived(repBackup.backupHeader, repBackup.partTableData)
     /\ repAlt # NoDerived => Derived(repAlt.header, repAlt.entries)

\* C19 amended: the two LBAs are swapped, the entry array starts
\* ceil(numPartEntries * partEntrySize / sectorSize) sectors below the
\* primary's alternateLba, the entries are those of the primary and the
\* primary is left unmodified; asAlternate carries the primary's stored
\* partEntriesCrc32 over, createBackupGptHeader stores the CRC32 computed
\* from the entries, which is the primary's stored value exactly when that
\* value matches the entries.
C19_BackupMirrorsPrimary ==
  LET h == repDisk.header
      sectors == (h.numPartEntries * h.partEntrySize
                    + SECTOR_SIZE_IN_BYTES - 1) \div SECTOR_SIZE_IN_BYTES
      Derived(d, entries) ==
        /\ d.currentLba = h.backupLba
        /\ d.backupLba = h.currentLba
        /\ d.partEntryStartLba = h.backupLba - sectors
        /\ entries = repPrimary.entries
        /\ repPrimary = GptRead(repDisk)
  IN /\ repBackup # NoDerived =>
          /\ Derived(repBackup.backupHeader, repBackup.partTableData)
          /\ repBackup.backupLba = h.backupLba
          /\ repBackup.backupPartTableLba = h.backupLba - sectors
          /\ repBackup.backupHeader.crc32PartEntries
               = crc32(repBackup.partTableData)
          /\ (repBackup.backupHeader.crc32PartEntries = h.crc32PartEntries)
               <=> (h.crc32PartEntries = crc32(repPrimary.entries))
     /\ repAlt # NoDerived =>
          /\ Derived(repAlt.header, repAlt.entries)
          /\ repAlt.header.crc32PartEntries = h.crc32PartEntries

\* both backups were derived from a primary whose entry array ends inside
\* a sector, and repairGpt has written the backup header
C19_BothDerived ==
  /\ repBackup # NoDerived
  /\ repAlt # NoDerived
  /\ (repDisk.header.numPartEntries * repDisk.header.partEntrySize)
       % SECTOR_SIZE_IN_BYTES # 0
  /\ rpc = "returned"

(***************************************************************************)
(* Claims about the sparse readers                                         *)
(***************************************************************************)
\* C20: for every valid sparse image and every allowed piece size the
\* pieces yielded by the sparse reader (Sparse.read, splitBlob), put end to
\* end, are totalBlocks * blockSize bytes equal to the reference expansion:
\* Raw data copied, the Fill pattern tiled over the chunk's blocks, Skip as
\* zeros, Crc32 contributing nothing, in file order.
C20_PiecesAreExpansion ==
  LET cs == spImage.chunks
      bs == spImage.blockSize
      Expanded(c) ==
        IF c.type = "Raw" THEN c.data
        ELSE IF c.type = "Fill"
        THEN [i \in 1..c.blocks * bs |-> c.data[((i - 1) % 4) + 1]]
        ELSE IF c.type = "Skip" THEN [i \in 1..c.blocks * bs |-> 0]
        ELSE <<>>
      Reference[i \in 0..Len(cs)] ==
        IF i = 0 THEN <<>> ELSE Reference[i - 1] \o Expanded(cs[i])
      Joined[i \in 0..Len(spOut)] ==
        IF i = 0 THEN <<>> ELSE Joined[i - 1] \o spOut[i]
  IN (spReader \in {"read", "splitBlob"} /\ spImage \in SparseFiles
        /\ spMaxSize % bs = 0 /\ sppc \in {"returned", "thrown"}) =>
       /\ sppc = "returned"
       /\ Joined[Len(spOut)] = Reference[Len(cs)]
       /\ Len(Joined[Len(spOut)]) = spImage.totalBlocks * bs

C22_ChunksYieldsAll ==
  (spReader \in {"read", "records"} /\ spMaxSize % spImage.blockSize = 0
     /\ sppc \in {"returned", "thrown"}) =>
    /\ \A i \in 1..Len(spYielded) : spYielded[i] = i
    /\ spImage \in SparseFiles =>
         (sppc = "returned" /\ Len(spYielded) = spImage.totalChunks)
    /\ spImage.size < FILE_HEADER_SIZE + SumChunkBytes(spImage.chunks) =>
         sppc = "thrown"

C24_ReadBufferTerminates == <>(rbpc = "done")

\* C25: connect completes only when the device has answered <configure>
\* with ACK and its log holds the configure handler line and the storage
\* type line
C25_ConfigureChecksAnswer ==
  cpc = "connected" =>
    cfgAnswer.value = "ACK" /\ cfgAnswer.handler /\ cfgAnswer.storage

\* C26 as claimed: flashBlob called with a spelling of the name gpt issues
\* no program and no erase command and returns true, whether or not a table
\* holds an entry of that name (every table being readable)
C26_GptNameIsNoOpAlways ==
  (fbName \in GptNames /\ \A i \in 1..Len(fbLuns) : fbLuns[i].readable) =>
    /\ \A i \in 1..Len(fbCmds) : fbCmds[i] \notin {"cmdProgram", "cmdErase"}
    /\ fbpc \in {"ret_true", "ret_false", "thrown"} => fbpc = "ret_true"

\* C26 amended: flashBlob called with a spelling of the name gpt issues no
\* program and no erase command; it returns true when detectPartition finds
\* an entry of exactly that name and throws otherwise
C26_GptNameIsNoOp ==
  LET found == \E i \in 1..Len(fbLuns) :
                 /\ \A j \in 1..i : fbLuns[j].readable
                 /\ \E e \in fbLuns[i].entries : e.name = fbName
  IN fbName \in GptNames =>
       /\ \A i \in 1..Len(fbCmds) :
            fbCmds[i] \notin {"cmdProgram", "cmdErase"}
       /\ fbpc \in {"ret_true", "ret_false", "thrown", "writing"} =>
            fbpc = IF found THEN "ret_true" ELSE "thrown"

\* the name GPT was found on the second LUN and flashBlob returned true
C26_UpperCaseFound ==
  /\ fbName = "GPT"
  /\ fbIdx = 2
  /\ fbpc = "ret_true"

\* C27 as claimed: what getResponse returns for a concatenation of response
\* documents is the attribute set of the rightmost document
C27_ResponseIsRightmost ==
  xmpc = "done" => xmContent = xmDocs[Len(xmDocs)]

\* C27 amended: what getResponse returns holds every attribute that some
\* document carries, each with the value of the rightmost document that
\* carries it
C27_ResponseIsLaterWins ==
  xmpc = "done" =>
    /\ DOMAIN xmContent = UNION {DOMAIN xmDocs[i] : i \in 1..Len(xmDocs)}
    /\ \A a \in DOMAIN xmContent :
         \E i \in 1..Len(xmDocs) :
           /\ a \in DOMAIN xmDocs[i]
           /\ xmContent[a] = xmDocs[i][a]
           /\ \A j \in (i + 1)..Len(xmDocs) : a \notin DOMAIN xmDocs[j]

\* two documents, the second changes value and carries no rawmode
C27_EarlierAttributeKept ==
  /\ xmpc = "done"
  /\ Len(xmDocs) = 2
  /\ DOMAIN xmDocs[1] = {"value", "rawmode"}
  /\ DOMAIN xmDocs[2] = {"value"}
  /\ xmDocs[1]["value"] # xmDocs[2]["value"]
  /\ xmContent["rawmode"] = xmDocs[1]["rawmode"]

\* C28: Sahara.connect ends by returning "sahara", "firehose" or "error",
\* never by throwing; probe data it cannot classify, such as a frame whose
\* first byte is 1 and whose command is neither HELLO_REQ nor END_TRANSFER,
\* gives "error"
C28_ConnectNeverThrows ==
  /\ connectResult \in {"none", "sahara", "firehose", "error"}
  /\ (/\ connectResult # "none"
      /\ probeFirst.len > 1
      /\ probeFirst.b0 = 1
      /\ probeFirst.cmd \notin {SAHARA_HELLO_REQ, SAHARA_END_TRANSFER})
       => connectResult = "error"

\* C29: when the first read gave nothing, what arrives after the no-op XML
\* is classified as the first read would be: a HELLO_REQ or END_TRANSFER
\* frame gives "sahara", data holding "<?xml" gives "firehose"
C29_LateProbeClassifiedAlike ==
  (connectResult # "none" /\ probeFirst.len = 0) =>
    /\ (/\ probeLate.len > 1
        /\ probeLate.cmd \in {SAHARA_HELLO_REQ, SAHARA_END_TRANSFER})
         => connectResult = "sahara"
    /\ probeLate.xml => connectResult = "firehose"

\* C30: every program and erase command of flashBlob stays on the LUN and
\* within the sectors of the target partition, for raw and for sparse
\* images, also when a sparse image expands to more than its file size
C30_WritesStayInPartition ==
  \A i \in 1..Len(issued) :
    issued[i].op \in {"cmdProgram", "cmdErase"} =>
      /\ issued[i].lun = part.lun
      /\ issued[i].start >= part.sector
      /\ issued[i].start + issued[i].nsect <= part.sector + part.sectors

\* C31: a step of GPT.setActiveSlot changes nothing but the SLOT_ACTIVE,
\* BOOT_SUCCESSFUL, UNBOOTABLE and TRIES bits of present slotted entries:
\* the 54 attribute bits below the A/B field and the other bits of that
\* field, the names and the presence of all entries stay, and entries that
\* are absent or not slotted stay whole
C31_SetActiveSlotFrame ==
  [][LET mask == AB_PARTITION_ATTR_SLOT_ACTIVE
                   + AB_PARTITION_ATTR_BOOT_SUCCESSFUL
                   + AB_PARTITION_ATTR_UNBOOTABLE
                   + AB_PARTITION_ATTR_TRIES_MASK
     IN (spc = "parsed" /\ lastSet' \in {"a", "b"} /\ gotSlot' = "none") =>
          /\ Len(partEntries') = Len(partEntries)
          /\ \A i \in 1..Len(partEntries) :
               /\ partEntries'[i].name = partEntries[i].name
               /\ partEntries'[i].used = partEntries[i].used
               /\ partEntries'[i].attributes.low
                    = partEntries[i].attributes.low
               /\ BitClear(partEntries'[i].attributes.ab, mask)
                    = BitClear(partEntries[i].attributes.ab, mask)
               /\ (\/ ~partEntries[i].used
                   \/ partEntries[i].name.suffix \notin {"_a", "_b"})
                    => partEntries'[i] = partEntries[i]]_vars

\* C32: a header with the right signature and revision and a headerSize
\* from 92 to the sector size, whose stored CRC32 is that of its first
\* headerSize bytes with the CRC32 field zeroed, is parsed with
\* mismatchCrc32 = false
C32_HeaderCrcOverHeaderSize ==
  (/\ hdpc = "done"
   /\ hdData.signature = "EFI PART"
   /\ hdData.revision = 65536
   /\ hdData.headerSize >= GPT_HEADER_BYTES
   /\ hdData.headerSize <= SECTOR_SIZE_IN_BYTES
   /\ hdData.headerCrc32 = crc32(HeaderBytes(hdData, hdData.headerSize)))
    => (~hdResult.null /\ ~hdResult.mismatchCrc32)

C34_PayloadThenEmptyWrite ==
  /\ \A i \in 1..Len(stBulk) - 1 :
       stBulk[i] = "payload" => stBulk[i + 1] = "empty"
  /\ (stpc \in {"loop", "wait"} /\ stBulk # <<>>) =>
       stBulk[Len(stBulk)] = "empty"
  /\ (stpc = "done" /\ stResult # "thrown" /\ stBulk # <<>>) =>
       stBulk[Len(stBulk)] = "empty"

\* cmdErase wrote two payload chunks, each with its zero-length write, and
\* waits for the final response
C34_EraseStreamedTwoChunks ==
  /\ stCmd = "erase"
  /\ stpc = "wait"
  /\ stBulk = <<"payload", "empty", "payload", "empty">>

\* C35: setActiveSlot issues cmdSetBootLunId only if every cmdProgram of
\* the operation succeeded
C35_BootLunOnlyAfterGoodWrites ==
  (\E i \in 1..Len(devCmds) : devCmds[i].op = "cmdSetBootLunId") =>
    ~gptWriteFailed

C37_CheckOnlyInspects ==
  /\ ckData = ckFirst
  /\ (Len(ckResults) = 2 /\ ckResults[1]) => ckResults[2]

\* C38: at log level debug, where no line is filtered: the first message of
\* each run of identical consecutive messages is printed by its own call and
\* a repeat is not; after a flush the printed messages plus the repeat
\* counts printed equal the number of messages received; at most one
\* debounce timer is pending; a flush that follows a flush prints nothing
C38_RunsAreCountedOnce ==
  LET Msgs == {i \in 1..Len(lgOps) : lgOps[i].op = "message"}
      FirstOfRun(i) ==
        \A j \in Msgs :
          (j < i /\ \A k \in Msgs : ~(j < k /\ k < i)) =>
            lgOps[j].message # lgOps[i].message
      PrintsItself(i) ==
        \E l \in 1..Len(lgOps[i].lines) : lgOps[i].lines[l].kind = "message"
      LineCount(line) == IF line.kind = "message" THEN 1 ELSE line.n
      RECURSIVE SumLines(_)
      SumLines(lines) ==
        IF lines = <<>> THEN 0
        ELSE LineCount(Head(lines)) + SumLines(Tail(lines))
      RECURSIVE SumOps(_)
      SumOps(n) == IF n = 0 THEN 0 ELSE SumOps(n - 1) + SumLines(lgOps[n].lines)
  IN lgLevel = LogLevelDebug =>
       /\ \A i \in Msgs : FirstOfRun(i) <=> PrintsItself(i)
       /\ (lgOps # <<>> /\ lgOps[Len(lgOps)].op = "flush") =>
            SumOps(Len(lgOps)) = Cardinality(Msgs)
       /\ lgTimers <= 1
       /\ \A i \in 2..Len(lgOps) :
            (lgOps[i].op = "flush" /\ lgOps[i - 1].op = "flush") =>
              lgOps[i].lines = <<>>

\* C39: at every log level from error upward each message prefixed "ERROR:"
\* is reported at error level: printed by its own call through
\* console.error, or counted in the next repeat line, which goes through
\* console.error, or still counted in a pending repeat of error level
C39_DeviceErrorsAreReported ==
  LET ErrorLine(i, kind) ==
        \E l \in 1..Len(lgOps[i].lines) :
          lgOps[i].lines[l].kind = kind /\ lgOps[i].lines[l].error
      RepeatLine(i) ==
        \E l \in 1..Len(lgOps[i].lines) : lgOps[i].lines[l].kind = "repeat"
      Reported(i) ==
        \/ ErrorLine(i, "message")
        \/ \E j \in (i + 1)..Len(lgOps) :
             /\ ErrorLine(j, "repeat")
             /\ \A k \in (i + 1)..(j - 1) : ~RepeatLine(k)
        \/ /\ \A j \in (i + 1)..Len(lgOps) : lgOps[j].lines = <<>>
           /\ deviceState.count > 1
           /\ deviceState.lastLogLevel = LogLevelError
  IN lgLevel >= LogLevelError =>
       \A i \in 1..Len(lgOps) :
         (lgOps[i].op = "message" /\ lgOps[i].message.prefix = "ERROR:") =>
           Reported(i)

\* C40: runWithTimeout(p, t) settles exactly once, decided by what happens
\* first: the returned promise settles in the end and never changes once it
\* has settled; if p settled before the timer, it takes p's outcome and,
\* the reactions having run, the timer is cancelled and never fires; if the
\* timer fired first it is rejected with the timeout error, whatever p does
\* later
C40_FirstOneDecides ==
  /\ [][rtResult.state # "pending" => rtResult' = rtResult]_vars
  /\ [](rtFirst = "promise" =>
          /\ rtTimer # "fired"
          /\ rtChain \in {"finally", "done"} =>
               rtResult = Promise(rtPromise.state, <<rtPromise.value, 0>>)
          /\ rtChain = "done" => rtTimer = "cleared")
  /\ [](rtFirst = "timer" =>
          rtResult = Promise("rejected", TimedOutError(rtTimeout)))
  /\ [](rtFirst = "none" => rtResult.state = "pending")
  /\ <>(rtResult.state # "pending")

\* the timer fired first and the promise was rejected afterwards, all its
\* reactions have run
C40_LateRejectionIgnored ==
  /\ rtFirst = "timer"
  /\ rtPromise.state = "rejected"
  /\ rtChain = "done"
  /\ rtResult.value = TimedOutError(rtTimeout)

====
